---- MODULE Spec2Model ----
(***************************************************************************)
(* A model of src/app.py.                                                  *)
(*                                                                         *)
(*   Spec       the Flask handlers /start_scraping and /stop_scraping and  *)
(*              the worker threads run_scraping_task, interleaved          *)
(*   SpecBatch  one batch: process_all_investors with its checkpointed     *)
(*              save_results, the process possibly killed at any point     *)
(*   SpecPage   one loaded page: scrape_page_for_emails with               *)
(*              extract_emails, and the result row built from its emails   *)
(*   SpecFetch  one call of scrape_page_for_emails: its retry loop and     *)
(*              the browser of each attempt                                *)
(*   SpecSearch one call of search_alternative_engines: two engines, their *)
(*              retry loops, the tiers of links, the finally block         *)
(*   SpecFind   one call of find_emails_for_investor: four queries, the    *)
(*              URLs of each, the early exit, a raising query              *)
(*   SpecExtract one call of extract_emails on a text of a few words       *)
(*   SpecParse  one call of parse_investor_list on a text of a few          *)
(*              characters                                                 *)
(*   SpecTerm   a batch, or one call of scrape_page_for_emails, of          *)
(*              search_alternative_engines or of find_emails_for_investor, *)
(*              each step of which is taken in the end                     *)
(*                                                                         *)
(* Strings are sequences of one-character strings, so that the regular     *)
(* expression, substring tests, splits, joins and lower-casing are         *)
(* computed as the code computes them.                                     *)
(***************************************************************************)
EXTENDS Integers, Sequences, FiniteSets, TLC

(***************************************************************************)
(* Bounds of the model.                                                    *)
(***************************************************************************)
\* /start_scraping requests (each may become a worker thread)
MaxWorkers == 2
\* seconds the wall clock may advance (results_file names have 1 s resolution)
MaxTime == 1
\* longest name list of a batch in SpecBatch
MaxNames == 11
\* longest name list of a batch in Spec (several workers interleave there)
AppMaxNames == 2
\* resolutions of one batch that raise
MaxRaises == 1
\* resolutions of one batch that return a non-empty email list
MaxFound == 1
\* <a> elements of a page
MaxLinks == 2
\* text regions of a page
MaxRegions == 2
\* result links of a search engine's page
MaxHits == 3
\* largest max_results of a call of search_alternative_engines
MaxResults == 2
\* URLs search_alternative_engines returns to find_emails_for_investor
MaxUrls == 2
\* words of the text given to extract_emails
MaxWords == 3
\* characters and separators of the text given to parse_investor_list
MaxTokens == 7

(***************************************************************************)
(* Program constants.                                                      *)
(***************************************************************************)
\* if i % 10 == 0 or i == total
CheckpointEvery == 10
\* def __init__(self, delay_range=(8, 15), max_retries=3)
max_retries == 3

VARIABLES
    task_status,   \* the module-level dict task_status
    now,           \* the wall clock, in seconds (datetime.now())
    pc,            \* per request/worker: where it stands
    names,         \* per worker: investor_names handed to the thread
    output_file,   \* per worker: output_file of process_all_investors
    idx,           \* per worker: i of "for i, investor in enumerate(.., 1)"
    results,       \* per worker: the list results
    exc,           \* per worker: the exception that left process_all_investors
    files,         \* data/results: file name -> content
    cbLog,         \* per worker: the calls of progress_callback, in order
    saveLog,       \* per worker: the calls of save_results, in order
    lastSaved,     \* per worker: rows written by the last completed save_results
    raised,        \* per worker: <<i, message>> of every resolution that raised
    stopSeen,      \* workers that were alive when /stop_scraping set the flag
    playwright_instance, \* per worker: its scraper holds a Playwright instance
    closeLog,      \* per worker: the calls of scraper.close(), in order
    pg_pc,         \* one page of one investor: where its processing stands
    pg_investor,   \* investor_name of scrape_page_for_emails
    pg_links,      \* the href of every <a> element of the page
    pg_regions,    \* the text regions of the page, each high-value or not
    combined_emails, \* what scrape_page_for_emails returns
    all_emails,    \* what find_emails_for_investor returns
    result,        \* the row process_all_investors builds from it
    sp_pc,         \* one call of scrape_page_for_emails: where it stands
    sp_attempt,    \* attempt of "for attempt in range(self.max_retries)"
    sp_browser,    \* its local variable browser
    sp_open,       \* the browsers launched for the call and not closed
    sp_log,        \* how each attempt of the call ended, in order
    sp_outcome,    \* how the call ended: returned or raised
    sp_result,     \* the list the call returned
    se_pc,         \* one call of search_alternative_engines: where it stands
    se_max,        \* its argument max_results
    se_engine,     \* the engine of "for engine in search_engines" (1, 2)
    se_attempt,    \* attempt of "for attempt in range(self.max_retries)"
    urls,          \* its set urls
    se_page,       \* its local variable page: bound or None
    se_context,    \* its local variable context: bound or None
    se_browser,    \* its local variable browser: a browser or None
    se_break,      \* the try body ended with "break"
    se_open,       \* the browsers launched for the call and not closed
    se_order,      \* the URLs added to urls, in the order of their discovery
    se_log,        \* the attempts begun, in order: <<engine, attempt>>
    se_yield,      \* len(urls) at the end of each engine's attempts
    se_ok,         \* the engines one of whose attempts reached "break"
    se_outcome,    \* how the call ended: returned or raised
    se_result,     \* the list the call returned
    fe_pc,         \* one call of find_emails_for_investor: where it stands
    fe_investor,   \* its argument investor_name
    fe_k,          \* the query of "for query in queries" (1..4)
    fe_urls,       \* its local variable urls
    fe_i,          \* the place in urls[:5] of "for i, url in enumerate(..)"
    fe_all,        \* its set all_emails
    fe_log,        \* the scrapes of the current query: <<url, emails>>
    fe_queries,    \* the queries begun, in order
    fe_exits,      \* the queries whose URL loop was left by "break"
    fe_raised,     \* <<k, all_emails>> for every query that raised
    fe_outcome,    \* how the call ended: returned or raised
    fe_result,     \* the list the call returned
    ex_pc,         \* one call of extract_emails: where it stands
    ex_text,       \* its argument text
    ex_investor,   \* its argument investor_name
    ex_emails,     \* its list emails (the matches of the pattern)
    ex_filtered,   \* its list filtered_emails
    ex_result,     \* the list the call returned
    pa_pc,         \* one call of parse_investor_list: where it stands
    raw_text,      \* its argument raw_text
    pa_text,       \* its local variable text
    unique_investors \* the list the call returned

appVars == <<task_status, now, pc, names, output_file, idx, results, exc, files,
             cbLog, saveLog, lastSaved, raised, stopSeen, playwright_instance,
             closeLog>>

pageVars == <<pg_pc, pg_investor, pg_links, pg_regions, combined_emails,
              all_emails, result>>

fetchVars == <<sp_pc, sp_attempt, sp_browser, sp_open, sp_log, sp_outcome, sp_result>>

searchVars == <<se_pc, se_max, se_engine, se_attempt, urls, se_page, se_context,
                se_browser, se_break, se_open, se_order, se_log, se_yield, se_ok,
                se_outcome, se_result>>

findVars == <<fe_pc, fe_investor, fe_k, fe_urls, fe_i, fe_all, fe_log, fe_queries,
              fe_exits, fe_raised, fe_outcome, fe_result>>

extractVars == <<ex_pc, ex_text, ex_investor, ex_emails, ex_filtered, ex_result>>

parseVars == <<pa_pc, raw_text, pa_text, unique_investors>>

netVars == <<fetchVars, searchVars, findVars, extractVars, parseVars>>

vars == <<appVars, pageVars, netVars>>

Workers == 1..MaxWorkers
Times == 0..MaxTime

(***************************************************************************)
(* Strings.                                                                *)
(***************************************************************************)
LowerMap ==
    "A" :> "a" @@ "B" :> "b" @@ "C" :> "c" @@ "D" :> "d" @@ "E" :> "e" @@
    "F" :> "f" @@ "G" :> "g" @@ "H" :> "h" @@ "I" :> "i" @@ "J" :> "j" @@
    "K" :> "k" @@ "L" :> "l" @@ "M" :> "m" @@ "N" :> "n" @@ "O" :> "o" @@
    "P" :> "p" @@ "Q" :> "q" @@ "R" :> "r" @@ "S" :> "s" @@ "T" :> "t" @@
    "U" :> "u" @@ "V" :> "v" @@ "W" :> "w" @@ "X" :> "x" @@ "Y" :> "y" @@
    "Z" :> "z"

\* str.lower()
Lower(s) ==
    [k \in 1..Len(s) |-> IF s[k] \in DOMAIN LowerMap THEN LowerMap[s[k]] ELSE s[k]]

\* sub in s
Contains(s, sub) ==
    \E k \in 0..(Len(s) - Len(sub)) : SubSeq(s, k + 1, k + Len(sub)) = sub

RECURSIVE Join(_, _)
\* sep.join(list)
Join(list, sep) ==
    IF list = <<>> THEN <<>>
    ELSE IF Len(list) = 1 THEN list[1]
    ELSE list[1] \o sep \o Join(Tail(list), sep)

RECURSIVE SplitFrom(_, _, _)
\* the pieces of SubSeq(s, p, Len(s)) between the occurrences of the character c
SplitFrom(s, c, p) ==
    IF \A k \in p..Len(s) : s[k] # c
    THEN <<SubSeq(s, p, Len(s))>>
    ELSE LET k == CHOOSE x \in p..Len(s) :
                     s[x] = c /\ \A y \in p..(x - 1) : s[y] # c
         IN  <<SubSeq(s, p, k - 1)>> \o SplitFrom(s, c, k + 1)

\* s.split(c), for a separator c of one character
Split(s, c) == SplitFrom(s, c, 1)

RECURSIVE Remove(_, _)
\* s.replace(old, ''), for a non-empty old
Remove(s, old) ==
    IF Len(s) < Len(old) THEN s
    ELSE IF SubSeq(s, 1, Len(old)) = old
         THEN Remove(SubSeq(s, Len(old) + 1, Len(s)), old)
         ELSE <<s[1]>> \o Remove(Tail(s), old)

\* s.startswith(prefix)
StartsWith(s, prefix) ==
    Len(s) >= Len(prefix) /\ SubSeq(s, 1, Len(prefix)) = prefix

RECURSIVE Strip(_)
\* s.strip(), for the blank
Strip(s) ==
    IF s = <<>> THEN s
    ELSE IF Head(s) = " " THEN Strip(Tail(s))
    ELSE IF s[Len(s)] = " " THEN Strip(SubSeq(s, 1, Len(s) - 1))
    ELSE s

\* investor_name=None
NoName == <<"<None>">>

EmptyStr == <<>>
NoneFound == <<"N","o","n","e"," ","f","o","u","n","d">>
ErrorPrefix == <<"E","r","r","o","r",":"," ">>
Completed == <<"C","o","m","p","l","e","t","e","d">>
EmailSep == <<";"," ">>

(***************************************************************************)
(* classify_investor_type                                                  *)
(***************************************************************************)
company_indicators ==
    { <<"v","e","n","t","u","r","e","s">>, <<"c","a","p","i","t","a","l">>,
      <<"f","u","n","d">>, <<"p","a","r","t","n","e","r","s">>,
      <<"g","r","o","u","p">>, <<"c","o","r","p">>, <<"l","t","d">>,
      <<"i","n","c">>, <<"l","l","c">>, <<"b","a","n","k">>,
      <<"f","o","u","n","d","a","t","i","o","n">>,
      <<"n","e","t","w","o","r","k">>, <<"h","o","l","d","i","n","g","s">>,
      <<"m","a","n","a","g","e","m","e","n","t">>, <<"e","q","u","i","t","y">>,
      <<"i","n","v","e","s","t","m","e","n","t">>, <<"a","n","g","e","l","s">>,
      <<"v","c">>, <<"a","d","v","i","s","o","r","y">>,
      <<"a","d","v","i","s","o","r","s">>,
      <<"f","a","m","i","l","y"," ","o","f","f","i","c","e">>,
      <<"w","e","a","l","t","h">>, <<"a","s","s","e","t">>,
      <<"p","r","i","v","a","t","e"," ","e","q","u","i","t","y">>,
      <<"v","e","n","t","u","r","e"," ","c","a","p","i","t","a","l">> }

classify_investor_type(name) ==
    IF \E indicator \in company_indicators : Contains(Lower(name), indicator)
    THEN "company" ELSE "person"

(***************************************************************************)
(* extract_emails                                                          *)
(***************************************************************************)
Letters == DOMAIN LowerMap \cup {LowerMap[c] : c \in DOMAIN LowerMap}
Digits == {"0", "1", "2", "3", "4", "5", "6", "7", "8", "9"}
\* \w
WordChars == Letters \cup Digits \cup {"_"}
\* [A-Za-z0-9._%+-]
LocalChars == Letters \cup Digits \cup {".", "_", "%", "+", "-"}
\* [A-Za-z0-9.-]
DomainChars == Letters \cup Digits \cup {".", "-"}
\* [A-Z|a-z]
TldChars == Letters \cup {"|"}

IsWordAt(t, p) == p \in 1..Len(t) /\ t[p] \in WordChars

\* \b between positions p - 1 and p
Boundary(t, p) == IsWordAt(t, p - 1) # IsWordAt(t, p)

SetMax(S) == CHOOSE x \in S : \A y \in S : y <= x

\* the end of the longest run of characters of class that starts at p (p - 1: none)
RunEnd(t, p, class) ==
    SetMax({e \in (p - 1)..Len(t) : \A k \in p..e : t[k] \in class})

\* the ends r of a top-level label that starts at s: {2,} characters, then \b
TldEnds(t, s) ==
    {r \in (s + 1)..RunEnd(t, s, TldChars) : Boundary(t, r + 1)}

\* the positions q at which the domain part may end: t[q + 1] is the dot of the
\* top-level label and a label can be matched behind it
DomainEnds(t, d) ==
    {q \in d..(RunEnd(t, d, DomainChars) - 1) :
        t[q + 1] = "." /\ TldEnds(t, q + 2) # {}}

\* the end of the match of email_pattern that starts at p, 0 if there is none;
\* the quantifiers are greedy: the longest domain part, then the longest label
MatchEnd(t, p) ==
    LET e1 == RunEnd(t, p, LocalChars)
    IN  IF /\ Boundary(t, p)
           /\ e1 >= p
           /\ e1 < Len(t)
           /\ t[e1 + 1] = "@"
           /\ DomainEnds(t, e1 + 2) # {}
        THEN SetMax(TldEnds(t, SetMax(DomainEnds(t, e1 + 2)) + 2))
        ELSE 0

RECURSIVE FindAllFrom(_, _)
FindAllFrom(t, p) ==
    IF p > Len(t) THEN <<>>
    ELSE IF MatchEnd(t, p) > 0
         THEN <<SubSeq(t, p, MatchEnd(t, p))>> \o FindAllFrom(t, MatchEnd(t, p) + 1)
         ELSE FindAllFrom(t, p + 1)

\* re.findall(email_pattern, text, re.IGNORECASE)
FindAll(t) == FindAllFrom(t, 1)

exclude_patterns ==
    { <<"@","e","x","a","m","p","l","e",".">>, <<"@","t","e","s","t",".">>,
      <<"@","p","l","a","c","e","h","o","l","d","e","r",".">>,
      <<"@","d","o","m","a","i","n",".">>, <<"@","t","e","m","p",".">>,
      <<"n","o","r","e","p","l","y","@">>,
      <<"n","o","-","r","e","p","l","y","@">>,
      <<"d","o","n","o","t","r","e","p","l","y","@">>,
      <<"s","u","p","p","o","r","t","@">>, <<"i","n","f","o","@">>,
      <<"h","e","l","l","o","@">>, <<"c","o","n","t","a","c","t","@">>,
      <<"a","d","m","i","n","@">>,
      <<"w","e","b","m","a","s","t","e","r","@">>,
      <<"s","a","l","e","s","@">>,
      <<"m","a","r","k","e","t","i","n","g","@">>, <<"h","e","l","p","@">>,
      <<"s","e","r","v","i","c","e","@">>,
      <<"c","u","s","t","o","m","e","r","s","e","r","v","i","c","e","@">>,
      <<"@","s","e","n","t","r","y",".">>,
      <<"@","f","a","c","e","b","o","o","k",".">>,
      <<"@","t","w","i","t","t","e","r",".">>,
      <<"@","l","i","n","k","e","d","i","n",".">>,
      <<"@","y","o","u","t","u","b","e",".">>,
      <<"@","i","n","s","t","a","g","r","a","m",".">>,
      <<"@","t","i","k","t","o","k",".">>,
      <<"@","g","o","o","g","l","e",".">>,
      <<"@","m","i","c","r","o","s","o","f","t",".">>,
      <<"@","a","p","p","l","e",".">>, <<"@","a","m","a","z","o","n",".">>,
      <<"@","a","d","o","b","e",".">>, <<"@","g","i","t","h","u","b",".">>,
      <<"@","s","t","a","c","k","o","v","e","r","f","l","o","w",".">>,
      <<"@","r","e","d","d","i","t",".">>,
      <<"@","d","i","s","c","o","r","d",".">>,
      <<"@","s","l","a","c","k",".">>, <<"@","z","o","o","m",".">>,
      <<"@","t","e","a","m","s",".">>, <<"@","s","k","y","p","e",".">>,
      <<"@","t","r","a","x","c","n",".">>,
      <<"@","a","n","a","l","y","t","i","c","s",".">>,
      <<"@","t","r","a","c","k","i","n","g",".">>,
      <<"@","p","i","x","e","l",".">>,
      <<"@","g","o","o","g","l","e","t","a","g","m","a","n","a","g","e","r",".">>,
      <<"@","g","o","o","g","l","e","a","n","a","l","y","t","i","c","s",".">>,
      <<"@","h","o","t","j","a","r",".">>,
      <<"@","m","i","x","p","a","n","e","l",".">>,
      <<"@","s","e","g","m","e","n","t",".">>,
      <<"@","a","m","p","l","i","t","u","d","e",".">>,
      <<"@","i","n","t","e","r","c","o","m",".">>,
      <<"h","i","@","t","r","a","x","c","n">>, <<"t","r","a","c","k","@">>,
      <<"p","i","x","e","l","@">>, <<"i","m","g","@">>,
      <<"i","m","a","g","e","@">>, <<"s","t","a","t","i","c","@">>,
      <<"c","d","n","@">>, <<"a","s","s","e","t","s","@">>,
      <<"m","a","i","l","@","m","a","i","l","g","u","n">>,
      <<"b","o","u","n","c","e","@">>,
      <<"@","m","a","i","l","g","u","n",".">>,
      <<"@","s","e","n","d","g","r","i","d",".">>,
      <<"@","m","a","i","l","c","h","i","m","p",".">>,
      <<"@","c","o","n","s","t","a","n","t","c","o","n","t","a","c","t",".">>,
      <<"@","a","w","e","b","e","r",".">>,
      <<"@","c","o","n","v","e","r","t","k","i","t",".">>,
      <<"@","a","c","t","i","v","e","c","a","m","p","a","i","g","n",".">>,
      <<"@","k","l","a","v","i","y","o",".">>,
      <<"@","m","a","i","l","e","r","l","i","t","e",".">> }
low_quality_domains ==
    { <<"g","m","a","i","l",".","c","o","m">>,
      <<"y","a","h","o","o",".","c","o","m">>,
      <<"h","o","t","m","a","i","l",".","c","o","m">>,
      <<"o","u","t","l","o","o","k",".","c","o","m">>,
      <<"a","o","l",".","c","o","m">>, <<"l","i","v","e",".","c","o","m">>,
      <<"m","s","n",".","c","o","m">>,
      <<"i","c","l","o","u","d",".","c","o","m">> }

\* email.count(c)
CountChar(s, c) == Cardinality({k \in 1..Len(s) : s[k] = c})

\* local_part.isdigit()
IsDigitStr(s) == s # <<>> /\ \A k \in 1..Len(s) : s[k] \in Digits

\* a mutation of PassesFilters: the test of exclude_patterns is left out
PassesFilters_NoExclude(email, investor_name) ==
    LET domain_part == Split(email, "@")[2]
        local_part == Split(email, "@")[1]
    IN  /\ ~ (Len(email) < 5 \/ CountChar(email, "@") = 0)
        /\ ~ (CountChar(domain_part, ".") = 0
                \/ Len(Split(domain_part, ".")[Len(Split(domain_part, "."))]) < 2)
        /\ ~ (/\ investor_name # NoName
              /\ investor_name # EmptyStr
              /\ classify_investor_type(investor_name) = "company"
              /\ domain_part \in low_quality_domains)
        /\ ~ (CountChar(email, ".") > 3 \/ CountChar(email, "-") > 2)
        /\ ~ IsDigitStr(local_part)

\* a mutation of PassesFilters: the test of low_quality_domains is left out
PassesFilters_AnyDomain(email, investor_name) ==
    LET domain_part == Split(email, "@")[2]
        local_part == Split(email, "@")[1]
    IN  /\ ~ \E exclude \in exclude_patterns : Contains(email, exclude)
        /\ ~ (Len(email) < 5 \/ CountChar(email, "@") = 0)
        /\ ~ (CountChar(domain_part, ".") = 0
                \/ Len(Split(domain_part, ".")[Len(Split(domain_part, "."))]) < 2)
        /\ ~ (CountChar(email, ".") > 3 \/ CountChar(email, "-") > 2)
        /\ ~ IsDigitStr(local_part)

\* the body of "for email in emails": TRUE when the lower-cased, stripped email
\* reaches filtered_emails.append(email)
PassesFilters(email, investor_name) ==
    LET domain_part == Split(email, "@")[2]
        local_part == Split(email, "@")[1]
    IN  /\ ~ \E exclude \in exclude_patterns : Contains(email, exclude)
        /\ ~ (Len(email) < 5 \/ CountChar(email, "@") = 0)
        /\ ~ (CountChar(domain_part, ".") = 0
                \/ Len(Split(domain_part, ".")[Len(Split(domain_part, "."))]) < 2)
        /\ ~ (/\ investor_name # NoName
              /\ investor_name # EmptyStr
              /\ classify_investor_type(investor_name) = "company"
              /\ domain_part \in low_quality_domains)
        /\ ~ (CountChar(email, ".") > 3 \/ CountChar(email, "-") > 2)
        /\ ~ IsDigitStr(local_part)

\* filtered_emails, in the order of the matches
Filtered(emails, investor_name) ==
    SelectSeq([k \in 1..Len(emails) |-> Strip(Lower(emails[k]))],
              LAMBDA e : PassesFilters(e, investor_name))

\* set(filtered_emails): the addresses extract_emails returns
extract_emails(text, investor_name) ==
    LET f == Filtered(FindAll(text), investor_name)
    IN  {f[k] : k \in 1..Len(f)}

(***************************************************************************)
(* The inputs of a batch: names of the first column of the uploaded file,  *)
(* what a resolution returns or raises.                                    *)
(***************************************************************************)
NamePool ==
    << <<"J","a","n","e"," ","D","o","e">>,
       <<"A","c","m","e"," ","V","C">>,
       <<"B","o"," ","L","i">> >>

\* the name list of length n that starts at pool entry k + 1
NameList(n, k) == [j \in 1..n |-> NamePool[((j + k - 1) % Len(NamePool)) + 1]]

Email1 == <<"a","@","b",".","i","o">>

\* what find_emails_for_investor returns to process_all_investors
EmailLists == { <<>>, <<Email1>> }

\* str(e) of an exception raised by a resolution
Messages == { <<"b","o","o","m">> }

(***************************************************************************)
(* process_all_investors: the result rows                                  *)
(***************************************************************************)
\* the timestamp column is written and never read: it is left out
SuccessRow(investor, emails) ==
    [ investor_name |-> investor,
      type          |-> classify_investor_type(investor),
      emails_found  |-> Len(emails),
      emails        |-> IF emails # <<>> THEN Join(emails, EmailSep) ELSE NoneFound,
      status        |-> "Success" ]

ErrorRow(investor, msg) ==
    [ investor_name |-> investor,
      type          |-> classify_investor_type(investor),
      emails_found  |-> 0,
      emails        |-> ErrorPrefix \o msg,
      status        |-> "Error" ]

\* a variant that forgets the save after the last investor
NeedsSave_NoFinal(i, total) == i % CheckpointEvery = 0

\* if i % 10 == 0 or i == total
NeedsSave(i, total) == i % CheckpointEvery = 0 \/ i = total

\* a variant that delays after the last investor as well
NeedsDelay_Always(i, total) == TRUE

\* if i < total
NeedsDelay(i, total) == i < total

\* where the loop body goes after results.append(result)
AfterAppend(i, total) ==
    IF NeedsSave(i, total) THEN "save_open"
    ELSE IF NeedsDelay(i, total) THEN "delay" ELSE "loop"

\* where the loop body goes after save_results has returned
AfterSave(i, total) == IF NeedsDelay(i, total) THEN "delay" ELSE "loop"

\* the rows of an except branch
CountErrors(rows) == Cardinality({k \in 1..Len(rows) : rows[k].status = "Error"})

\* sum(1 for r in results if r['emails_found'] > 0)
CountFound(rows) == Cardinality({k \in 1..Len(rows) : rows[k].emails_found > 0})

(***************************************************************************)
(* The files of data/results.                                              *)
(***************************************************************************)
Absent == [exists |-> FALSE, header |-> FALSE, rows |-> <<>>]
\* open(filepath, 'w'): the file exists and is empty
Truncated == [exists |-> TRUE, header |-> FALSE, rows |-> <<>>]
\* writer.writeheader(); writer.writerows(results); the with block closes f
Written(rows) == [exists |-> TRUE, header |-> TRUE, rows |-> rows]

\* f'results_{datetime.now().strftime("%Y%m%d_%H%M%S")}.csv'
ResultsFileName(t) == t

(***************************************************************************)
(* Positions.                                                              *)
(***************************************************************************)
\* the thread is inside process_all_investors
InBatch == {"loop", "resolve", "save_open", "save_write", "delay"}
\* the thread has been started and has not ended
Alive == {"begin", "final", "except", "close", "end"} \cup InBatch

\* the value of a local variable that no assignment has bound yet, and None
\* where a number is expected (browsers are numbered from 0, files by the
\* second of their name)
Unbound == -1

InitStatus ==
    [ running |-> FALSE, current_investor |-> EmptyStr, progress |-> 0,
      total |-> 0, results_file |-> Unbound, errors |-> <<>>,
      start_time |-> -1, emails_found |-> 0 ]

\* task_status.update({...}) of start_scraping
StartedStatus(investor_names, t) ==
    [ running |-> TRUE, current_investor |-> EmptyStr, progress |-> 0,
      total |-> Len(investor_names), results_file |-> ResultsFileName(t),
      errors |-> <<>>, start_time |-> t, emails_found |-> 0 ]

InitLocals ==
    /\ output_file = [w \in Workers |-> Unbound]
    /\ idx = [w \in Workers |-> 0]
    /\ results = [w \in Workers |-> <<>>]
    /\ exc = [w \in Workers |-> EmptyStr]
    /\ files = [f \in Times |-> Absent]
    /\ cbLog = [w \in Workers |-> <<>>]
    /\ saveLog = [w \in Workers |-> <<>>]
    /\ lastSaved = [w \in Workers |-> 0]
    /\ raised = [w \in Workers |-> {}]
    /\ stopSeen = {}
    /\ playwright_instance = [w \in Workers |-> FALSE]
    /\ closeLog = [w \in Workers |-> <<>>]

\* no batch has been started
AppIdle ==
    /\ task_status = InitStatus
    /\ now = 0
    /\ pc = [w \in Workers |-> "idle"]
    /\ names = [w \in Workers |-> <<>>]
    /\ InitLocals

\* no page is being processed
PageIdle ==
    /\ pg_pc = "none"
    /\ pg_investor = EmptyStr
    /\ pg_links = <<>>
    /\ pg_regions = <<>>
    /\ combined_emails = <<>>
    /\ all_emails = <<>>
    /\ result = <<>>

\* the locals of scrape_page_for_emails, search_alternative_engines,
\* find_emails_for_investor, extract_emails and parse_investor_list before
\* their first statement
NetLocals ==
    /\ sp_attempt = 0
    /\ sp_browser = Unbound
    /\ sp_open = {}
    /\ sp_log = <<>>
    /\ sp_outcome = "none"
    /\ sp_result = <<>>
    /\ se_engine = 1
    /\ se_attempt = 0
    /\ urls = {}
    /\ se_page = FALSE
    /\ se_context = FALSE
    /\ se_browser = Unbound
    /\ se_break = FALSE
    /\ se_open = {}
    /\ se_order = <<>>
    /\ se_log = <<>>
    /\ se_yield = <<>>
    /\ se_ok = {}
    /\ se_outcome = "none"
    /\ se_result = <<>>
    /\ fe_k = 1
    /\ fe_urls = <<>>
    /\ fe_i = 0
    /\ fe_all = {}
    /\ fe_log = <<>>
    /\ fe_queries = <<>>
    /\ fe_exits = {}
    /\ fe_raised = <<>>
    /\ fe_outcome = "none"
    /\ fe_result = <<>>
    /\ ex_emails = <<>>
    /\ ex_filtered = <<>>
    /\ ex_result = <<>>
    /\ pa_text = EmptyStr
    /\ unique_investors = <<>>

\* none of them has been called
NetIdle ==
    /\ NetLocals
    /\ sp_pc = "none"
    /\ se_pc = "none"
    /\ se_max = 0
    /\ fe_pc = "none"
    /\ fe_investor = EmptyStr
    /\ ex_pc = "none"
    /\ ex_text = EmptyStr
    /\ ex_investor = NoName
    /\ pa_pc = "none"
    /\ raw_text = EmptyStr

Init ==
    /\ AppIdle
    /\ PageIdle
    /\ NetIdle

(***************************************************************************)
(* /start_scraping                                                         *)
(***************************************************************************)
\* if task_status['running']: return 400
StartReject(w) ==
    /\ pc[w] = "idle"
    /\ task_status.running
    /\ UNCHANGED vars

\* no filename, file not found, or the file does not parse: 400, 404, 500
StartInvalid(w) ==
    /\ pc[w] = "idle"
    /\ ~task_status.running
    /\ UNCHANGED vars

\* the running test passed; the uploaded file is read and parsed
StartCheck(w) ==
    /\ pc[w] = "idle"
    /\ \A v \in Workers : v < w => pc[v] # "idle"
    /\ ~task_status.running
    /\ \E n \in 0..AppMaxNames :
          names' = [names EXCEPT ![w] = NameList(n, 0)]
    /\ pc' = [pc EXCEPT ![w] = "checked"]
    /\ UNCHANGED <<pageVars, netVars, playwright_instance, closeLog,
                   task_status, now, output_file, idx, results, exc, files,
                   cbLog, saveLog, lastSaved, raised, stopSeen>>

\* task_status.update({...}); current_task = Thread(...); current_task.start()
StartUpdate(w) ==
    /\ pc[w] = "checked"
    /\ task_status' = StartedStatus(names[w], now)
    /\ pc' = [pc EXCEPT ![w] = "begin"]
    /\ UNCHANGED <<pageVars, netVars, playwright_instance, closeLog, now, names,
                   output_file, idx, results, exc, files, cbLog, saveLog,
                   lastSaved, raised, stopSeen>>

(***************************************************************************)
(* /stop_scraping and /status                                              *)
(***************************************************************************)
StopScraping ==
    /\ task_status' = [task_status EXCEPT !.running = FALSE]
    /\ stopSeen' = stopSeen \cup {w \in Workers : pc[w] \in Alive}
    /\ UNCHANGED <<pageVars, netVars, playwright_instance, closeLog, now, pc,
                   names, output_file, idx, results, exc, files, cbLog, saveLog,
                   lastSaved, raised>>

\* the clock advances by a second
Tick ==
    /\ now < MaxTime
    /\ now' = now + 1
    /\ UNCHANGED <<pageVars, netVars, playwright_instance, closeLog,
                   task_status, pc, names, output_file, idx, results, exc,
                   files, cbLog, saveLog, lastSaved, raised, stopSeen>>

(***************************************************************************)
(* run_scraping_task and process_all_investors                             *)
(***************************************************************************)
\* scraper = ...; process_all_investors(investor_names, task_status['results_file'], ..)
WorkerBegin(w) ==
    /\ pc[w] = "begin"
    /\ output_file' = [output_file EXCEPT ![w] = task_status.results_file]
    /\ results' = [results EXCEPT ![w] = <<>>]
    /\ idx' = [idx EXCEPT ![w] = 0]
    /\ pc' = [pc EXCEPT ![w] = "loop"]
    /\ UNCHANGED <<pageVars, netVars, playwright_instance, closeLog,
                   task_status, now, names, exc, files, cbLog, saveLog,
                   lastSaved, raised, stopSeen>>

\* def progress_callback(current, total, investor_name)
progress_callback(status, current, total, investor_name) ==
    [status EXCEPT !.current_investor = investor_name, !.progress = current]

\* a variant that enumerates from 0
LoopNext_ZeroIndexed(w) ==
    /\ pc[w] = "loop"
    /\ idx[w] < Len(names[w])
    /\ idx' = [idx EXCEPT ![w] = idx[w] + 1]
    /\ task_status' =
          progress_callback(task_status, idx[w], Len(names[w]), names[w][idx[w] + 1])
    /\ cbLog' = [cbLog EXCEPT ![w] =
          Append(@, [i |-> idx[w], total |-> Len(names[w]),
                     name |-> names[w][idx[w] + 1], rows |-> Len(results[w])])]
    /\ pc' = [pc EXCEPT ![w] = "resolve"]
    /\ UNCHANGED <<pageVars, netVars, playwright_instance, closeLog, now, names,
                   output_file, results, exc, files, saveLog, lastSaved, raised,
                   stopSeen>>

\* for i, investor in enumerate(investor_list, 1): progress_callback(i, total, investor)
LoopNext(w) ==
    /\ pc[w] = "loop"
    /\ idx[w] < Len(names[w])
    /\ idx' = [idx EXCEPT ![w] = idx[w] + 1]
    /\ task_status' =
          progress_callback(task_status, idx[w] + 1, Len(names[w]), names[w][idx[w] + 1])
    /\ cbLog' = [cbLog EXCEPT ![w] =
          Append(@, [i |-> idx[w] + 1, total |-> Len(names[w]),
                     name |-> names[w][idx[w] + 1], rows |-> Len(results[w])])]
    /\ pc' = [pc EXCEPT ![w] = "resolve"]
    /\ UNCHANGED <<pageVars, netVars, playwright_instance, closeLog, now, names,
                   output_file, results, exc, files, saveLog, lastSaved, raised,
                   stopSeen>>

\* the loop is exhausted: return results
LoopEnd(w) ==
    /\ pc[w] = "loop"
    /\ idx[w] = Len(names[w])
    /\ pc' = [pc EXCEPT ![w] = "final"]
    /\ UNCHANGED <<pageVars, netVars, playwright_instance, closeLog,
                   task_status, now, names, output_file, idx, results, exc,
                   files, cbLog, saveLog, lastSaved, raised, stopSeen>>

\* emails = await self.find_emails_for_investor(investor); results.append(result)
\* create_browser_context: if self.playwright_instance is None: .. = await
\* async_playwright().start(), which returns in one of the calls or in none
\* (and in one, when a page gave emails)
ResolveOk(w) ==
    /\ pc[w] = "resolve"
    /\ \E emails \in EmailLists, started \in BOOLEAN :
          /\ emails # <<>> => CountFound(results[w]) < MaxFound
          /\ emails # <<>> => started
          /\ results' = [results EXCEPT ![w] =
                Append(@, SuccessRow(names[w][idx[w]], emails))]
          /\ playwright_instance' = [playwright_instance EXCEPT ![w] = @ \/ started]
    /\ pc' = [pc EXCEPT ![w] = AfterAppend(idx[w], Len(names[w]))]
    /\ UNCHANGED <<pageVars, netVars, closeLog, task_status, now, names,
                   output_file, idx, exc, files, cbLog, saveLog, lastSaved,
                   raised, stopSeen>>

\* a variant whose handler appends no row for the investor that raised
ResolveRaise_Skip(w) ==
    /\ pc[w] = "resolve"
    /\ \E started \in BOOLEAN :
          playwright_instance' = [playwright_instance EXCEPT ![w] = @ \/ started]
    /\ CountErrors(results[w]) < MaxRaises
    /\ \E msg \in Messages :
          raised' = [raised EXCEPT ![w] = @ \cup {<<idx[w], msg>>}]
    /\ pc' = [pc EXCEPT ![w] = AfterAppend(idx[w], Len(names[w]))]
    /\ UNCHANGED <<pageVars, netVars, closeLog, task_status, now, names,
                   output_file, idx, results, exc, files, cbLog, saveLog,
                   lastSaved, stopSeen>>

\* a variant without the try/except around the resolution
ResolveRaise_Propagate(w) ==
    /\ pc[w] = "resolve"
    /\ \E started \in BOOLEAN :
          playwright_instance' = [playwright_instance EXCEPT ![w] = @ \/ started]
    /\ CountErrors(results[w]) < MaxRaises
    /\ \E msg \in Messages :
          /\ exc' = [exc EXCEPT ![w] = msg]
          /\ raised' = [raised EXCEPT ![w] = @ \cup {<<idx[w], msg>>}]
    /\ pc' = [pc EXCEPT ![w] = "except"]
    /\ UNCHANGED <<pageVars, netVars, closeLog, task_status, now, names,
                   output_file, idx, results, files, cbLog, saveLog, lastSaved,
                   stopSeen>>

\* except Exception as e: result = {... 'status': 'Error'}; results.append(result)
ResolveRaise(w) ==
    /\ pc[w] = "resolve"
    /\ \E started \in BOOLEAN :
          playwright_instance' = [playwright_instance EXCEPT ![w] = @ \/ started]
    /\ CountErrors(results[w]) < MaxRaises
    /\ \E msg \in Messages :
          /\ results' = [results EXCEPT ![w] =
                Append(@, ErrorRow(names[w][idx[w]], msg))]
          /\ raised' = [raised EXCEPT ![w] = @ \cup {<<idx[w], msg>>}]
    /\ pc' = [pc EXCEPT ![w] = AfterAppend(idx[w], Len(names[w]))]
    /\ UNCHANGED <<pageVars, netVars, closeLog, task_status, now, names,
                   output_file, idx, exc, files, cbLog, saveLog, lastSaved,
                   stopSeen>>

\* save_results: with open(filepath, 'w', ...) as f
SaveOpen(w) ==
    /\ pc[w] = "save_open"
    /\ files' = [files EXCEPT ![output_file[w]] = Truncated]
    /\ saveLog' = [saveLog EXCEPT ![w] =
          Append(@, [at |-> idx[w], rows |-> Len(results[w]), file |-> output_file[w]])]
    /\ pc' = [pc EXCEPT ![w] = "save_write"]
    /\ UNCHANGED <<pageVars, netVars, playwright_instance, closeLog,
                   task_status, now, names, output_file, idx, results, exc,
                   cbLog, lastSaved, raised, stopSeen>>

\* open() raises (the results folder is not writable): the file is untouched
SaveOpenFail(w) ==
    /\ pc[w] = "save_open"
    /\ saveLog' = [saveLog EXCEPT ![w] =
          Append(@, [at |-> idx[w], rows |-> Len(results[w]), file |-> output_file[w]])]
    /\ exc' = [exc EXCEPT ![w] = <<"o","p","e","n">>]
    /\ pc' = [pc EXCEPT ![w] = "except"]
    /\ UNCHANGED <<pageVars, netVars, playwright_instance, closeLog,
                   task_status, now, names, output_file, idx, results, files,
                   cbLog, lastSaved, raised, stopSeen>>

\* writer.writeheader(); writer.writerows(results); f is closed
SaveWrite(w) ==
    /\ pc[w] = "save_write"
    /\ files' = [files EXCEPT ![output_file[w]] = Written(results[w])]
    /\ lastSaved' = [lastSaved EXCEPT ![w] = Len(results[w])]
    /\ pc' = [pc EXCEPT ![w] = AfterSave(idx[w], Len(names[w]))]
    /\ UNCHANGED <<pageVars, netVars, playwright_instance, closeLog,
                   task_status, now, names, output_file, idx, results, exc,
                   cbLog, saveLog, raised, stopSeen>>

\* a write raises (the disk is full): the file stays as open() left it
SaveWriteFail(w) ==
    /\ pc[w] = "save_write"
    /\ exc' = [exc EXCEPT ![w] = <<"w","r","i","t","e">>]
    /\ pc' = [pc EXCEPT ![w] = "except"]
    /\ UNCHANGED <<pageVars, netVars, playwright_instance, closeLog,
                   task_status, now, names, output_file, idx, results, files,
                   cbLog, saveLog, lastSaved, raised, stopSeen>>

\* await asyncio.sleep(delay)
Delay(w) ==
    /\ pc[w] = "delay"
    /\ pc' = [pc EXCEPT ![w] = "loop"]
    /\ UNCHANGED <<pageVars, netVars, playwright_instance, closeLog,
                   task_status, now, names, output_file, idx, results, exc,
                   files, cbLog, saveLog, lastSaved, raised, stopSeen>>

\* emails_found = sum(...); task_status.update({'running': False, 'Completed', ..})
\* process_all_investors has returned: what the thread reads no more is dropped
WorkerFinal(w) ==
    /\ pc[w] = "final"
    /\ task_status' = [task_status EXCEPT
          !.running = FALSE,
          !.current_investor = Completed,
          !.emails_found = CountFound(results[w])]
    /\ pc' = [pc EXCEPT ![w] = "close"]
    /\ names' = [names EXCEPT ![w] = <<>>]
    /\ output_file' = [output_file EXCEPT ![w] = Unbound]
    /\ idx' = [idx EXCEPT ![w] = 0]
    /\ results' = [results EXCEPT ![w] = <<>>]
    /\ cbLog' = [cbLog EXCEPT ![w] = <<>>]
    /\ saveLog' = [saveLog EXCEPT ![w] = <<>>]
    /\ lastSaved' = [lastSaved EXCEPT ![w] = 0]
    /\ raised' = [raised EXCEPT ![w] = {}]
    /\ UNCHANGED <<pageVars, netVars, playwright_instance, closeLog, now, exc,
                   files, stopSeen>>

\* except Exception as e: task_status.update({'running': False, f'Error: {str(e)}'})
\* a variant whose handler reports the batch as completed
WorkerExcept_Completed(w) ==
    /\ pc[w] = "except"
    /\ task_status' = [task_status EXCEPT
          !.running = FALSE,
          !.current_investor = Completed]
    /\ pc' = [pc EXCEPT ![w] = "close"]
    /\ names' = [names EXCEPT ![w] = <<>>]
    /\ output_file' = [output_file EXCEPT ![w] = Unbound]
    /\ idx' = [idx EXCEPT ![w] = 0]
    /\ results' = [results EXCEPT ![w] = <<>>]
    /\ cbLog' = [cbLog EXCEPT ![w] = <<>>]
    /\ saveLog' = [saveLog EXCEPT ![w] = <<>>]
    /\ lastSaved' = [lastSaved EXCEPT ![w] = 0]
    /\ raised' = [raised EXCEPT ![w] = {}]
    /\ UNCHANGED <<pageVars, netVars, playwright_instance, closeLog, now, exc,
                   files, stopSeen>>

\* process_all_investors has raised: what the thread reads no more is dropped
WorkerExcept(w) ==
    /\ pc[w] = "except"
    /\ task_status' = [task_status EXCEPT
          !.running = FALSE,
          !.current_investor = ErrorPrefix \o exc[w]]
    /\ pc' = [pc EXCEPT ![w] = "close"]
    /\ names' = [names EXCEPT ![w] = <<>>]
    /\ output_file' = [output_file EXCEPT ![w] = Unbound]
    /\ idx' = [idx EXCEPT ![w] = 0]
    /\ results' = [results EXCEPT ![w] = <<>>]
    /\ cbLog' = [cbLog EXCEPT ![w] = <<>>]
    /\ saveLog' = [saveLog EXCEPT ![w] = <<>>]
    /\ lastSaved' = [lastSaved EXCEPT ![w] = 0]
    /\ raised' = [raised EXCEPT ![w] = {}]
    /\ UNCHANGED <<pageVars, netVars, playwright_instance, closeLog, now, exc,
                   files, stopSeen>>

\* a variant of close() that stops the instance and keeps the field
WorkerClose_KeepsField(w) ==
    /\ pc[w] = "close"
    /\ closeLog' = [closeLog EXCEPT ![w] =
          Append(@, [held |-> playwright_instance[w],
                     stopped |-> playwright_instance[w], raised |-> FALSE])]
    /\ pc' = [pc EXCEPT ![w] = "end"]
    /\ UNCHANGED <<pageVars, netVars, playwright_instance, task_status, now, names,
                   output_file, idx, results, exc, files, cbLog, saveLog,
                   lastSaved, raised, stopSeen>>

\* finally: loop.run_until_complete(scraper.close()), whose exception is logged.
\* close(): if self.playwright_instance: await ..stop(); ..playwright_instance = None
\* (stop() returns, or raises and the field keeps the instance)
WorkerClose(w) ==
    /\ pc[w] = "close"
    /\ \/ /\ ~ playwright_instance[w]
          /\ closeLog' = [closeLog EXCEPT ![w] =
                Append(@, [held |-> FALSE, stopped |-> FALSE, raised |-> FALSE])]
          /\ UNCHANGED playwright_instance
       \/ /\ playwright_instance[w]
          /\ closeLog' = [closeLog EXCEPT ![w] =
                Append(@, [held |-> TRUE, stopped |-> TRUE, raised |-> FALSE])]
          /\ playwright_instance' = [playwright_instance EXCEPT ![w] = FALSE]
       \/ /\ playwright_instance[w]
          /\ closeLog' = [closeLog EXCEPT ![w] =
                Append(@, [held |-> TRUE, stopped |-> FALSE, raised |-> TRUE])]
          /\ UNCHANGED playwright_instance
    /\ pc' = [pc EXCEPT ![w] = "end"]
    /\ UNCHANGED <<pageVars, netVars, task_status, now, names, output_file, idx,
                   results, exc, files, cbLog, saveLog, lastSaved, raised,
                   stopSeen>>

\* loop.close(); the thread ends and its locals are gone
WorkerEnd(w) ==
    /\ pc[w] = "end"
    /\ pc' = [pc EXCEPT ![w] = "done"]
    /\ exc' = [exc EXCEPT ![w] = EmptyStr]
    /\ stopSeen' = stopSeen \ {w}
    /\ playwright_instance' = [playwright_instance EXCEPT ![w] = FALSE]
    /\ closeLog' = [closeLog EXCEPT ![w] = <<>>]
    /\ UNCHANGED <<pageVars, netVars, task_status, now, names, output_file, idx,
                   results, files, cbLog, saveLog, lastSaved, raised>>

\* the process is killed while a worker is alive; only the files survive
Crash ==
    /\ \E w \in Workers : pc[w] \in Alive
    /\ pc' = [w \in Workers |-> IF pc[w] \in Alive THEN "crashed" ELSE pc[w]]
    /\ UNCHANGED <<pageVars, netVars, playwright_instance, closeLog,
                   task_status, now, names, output_file, idx, results, exc,
                   files, cbLog, saveLog, lastSaved, raised, stopSeen>>

WorkerStep(w) ==
    \/ WorkerBegin(w)
    \/ LoopNext(w)
    \/ LoopEnd(w)
    \/ ResolveOk(w)
    \/ ResolveRaise(w)
    \/ SaveOpen(w)
    \/ SaveOpenFail(w)
    \/ SaveWrite(w)
    \/ SaveWriteFail(w)
    \/ Delay(w)
    \/ WorkerFinal(w)
    \/ WorkerExcept(w)
    \/ WorkerClose(w)
    \/ WorkerEnd(w)

(***************************************************************************)
(* Spec: the application, with its handlers and worker threads.            *)
(***************************************************************************)
Next ==
    \/ \E w \in Workers : StartReject(w)
    \/ \E w \in Workers : StartInvalid(w)
    \/ \E w \in Workers : StartCheck(w)
    \/ \E w \in Workers : StartUpdate(w)
    \/ StopScraping
    \/ Tick
    \/ \E w \in Workers : WorkerStep(w)

Spec == Init /\ [][Next]_vars

(***************************************************************************)
(* SpecBatch: one batch, from the start of its worker thread, with the     *)
(* process possibly killed at any point.                                   *)
(***************************************************************************)
InitBatch ==
    /\ PageIdle
    /\ NetIdle
    /\ now = 0
    /\ pc = [w \in Workers |-> IF w = 1 THEN "begin" ELSE "idle"]
    /\ InitLocals
    /\ \E n \in 0..MaxNames, k \in 0..1 :
          /\ names = [w \in Workers |-> IF w = 1 THEN NameList(n, k) ELSE <<>>]
          /\ task_status = StartedStatus(NameList(n, k), 0)

NextBatch ==
    \/ WorkerStep(1)
    \/ Crash

SpecBatch == InitBatch /\ [][NextBatch]_vars

(***************************************************************************)
(* scrape_page_for_emails: the emails of a loaded page; what                *)
(* find_emails_for_investor and process_all_investors make of them.        *)
(***************************************************************************)
MailtoPrefix == <<"m","a","i","l","t","o",":">>

\* the href attributes a page may hold
LinkPool ==
    { <<"m","a","i","l","t","o",":","j","o","@","a","c","m","e",".","i","o">>,
      <<"m","a","i","l","t","o",":","I","n","f","o","@","A","c","m","e",".","i","o",
        "?","s","u","b","j","e","c","t","=","H","i">>,
      <<"m","a","i","l","t","o",":","?","s","u","b","j","e","c","t","=","H","i">>,
      <<"h","t","t","p","s",":","/","/","a","c","m","e",".","i","o","/","t","e","a","m">> }

\* the texts a region of a page may hold
TextPool ==
    { <<"j","o","@","a","c","m","e",".","i","o">>,
      <<"M","a","i","l"," ","J","o","@","A","c","m","e",".","i","o"," ","o","r"," ",
        "i","n","f","o","@","a","c","m","e",".","i","o",".">>,
      <<"b","o","@","g","m","a","i","l",".","c","o","m">> }

SeqsUpTo(S, n) == UNION {[1..k -> S] : k \in 0..n}
SeqToSet(q) == {q[k] : k \in 1..Len(q)}

\* list(set(..)): the elements of S in any order
Orderings(S) ==
    {f \in [1..Cardinality(S) -> S] :
        \A i, j \in 1..Cardinality(S) : f[i] = f[j] => i = j}

\* mailto_links = soup.find_all('a', href=re.compile(r'^mailto:'))
\* email = link['href'].replace('mailto:', '').split('?')[0]
mailto_emails(links) ==
    LET mailto_links == SelectSeq(links, LAMBDA h : StartsWith(h, MailtoPrefix))
    IN  [k \in 1..Len(mailto_links) |->
            Split(Remove(mailto_links[k], MailtoPrefix), "?")[1]]

RECURSIVE priority_text(_)
\* priority_text += element.get_text(separator=' ', strip=True) + " "
priority_text(regions) ==
    IF regions = <<>> THEN <<>>
    ELSE (IF Head(regions).priority THEN Strip(Head(regions).text) \o <<" ">> ELSE <<>>)
            \o priority_text(Tail(regions))

\* all_text = soup.get_text(separator=' ', strip=True)
all_text(regions) ==
    Join(SelectSeq([k \in 1..Len(regions) |-> Strip(regions[k].text)],
                   LAMBDA t : t # <<>>),
         <<" ">>)

\* combined_emails = list(set(mailto_emails + priority_emails + all_emails))
CombinedSet(links, regions, investor_name) ==
    SeqToSet(mailto_emails(links))
       \cup extract_emails(priority_text(regions), investor_name)
       \cup extract_emails(all_text(regions), investor_name)

\* if emails: all_emails.update(emails)
Collected(emails) == IF emails # <<>> THEN SeqToSet(emails) ELSE {}

\* the page has loaded; its emails are extracted and returned
ScrapePage ==
    /\ pg_pc = "loaded"
    /\ combined_emails' \in Orderings(CombinedSet(pg_links, pg_regions, pg_investor))
    /\ pg_pc' = "scraped"
    /\ UNCHANGED <<appVars, netVars, pg_investor, pg_links, pg_regions,
                   all_emails, result>>

\* find_emails_for_investor: all_emails.update(emails); return list(all_emails)
ResolverCollect ==
    /\ pg_pc = "scraped"
    /\ all_emails' \in Orderings(Collected(combined_emails))
    /\ pg_pc' = "resolved"
    /\ UNCHANGED <<appVars, netVars, pg_investor, pg_links, pg_regions,
                   combined_emails, result>>

\* process_all_investors: result = {..., 'status': 'Success'}
BuildRow ==
    /\ pg_pc = "resolved"
    /\ result' = SuccessRow(pg_investor, all_emails)
    /\ pg_pc' = "row"
    /\ UNCHANGED <<appVars, netVars, pg_investor, pg_links, pg_regions,
                   combined_emails, all_emails>>

(***************************************************************************)
(* SpecPage: one loaded page of one investor, up to the row built from it. *)
(***************************************************************************)
InitPage ==
    /\ AppIdle
    /\ NetIdle
    /\ pg_pc = "loaded"
    /\ pg_investor \in {NamePool[1], NamePool[2]}
    /\ pg_links \in SeqsUpTo(LinkPool, MaxLinks)
    /\ pg_regions \in SeqsUpTo([text : TextPool, priority : BOOLEAN], MaxRegions)
    /\ combined_emails = <<>>
    /\ all_emails = <<>>
    /\ result = <<>>

NextPage ==
    \/ ScrapePage
    \/ ResolverCollect
    \/ BuildRow

SpecPage == InitPage /\ [][NextPage]_vars

(***************************************************************************)
(* scrape_page_for_emails: the retry loop and the browser of each attempt. *)
(* A browser is named by the attempt that launched it.                     *)
(***************************************************************************)
\* the pages a navigation may load
PagePool ==
    { [links |-> <<>>, regions |-> <<>>],
      [links |-> <<MailtoPrefix \o Email1>>, regions |-> <<>>],
      [links |-> <<>>,
       regions |-> << [text |-> <<"j","o","@","a","c","m","e",".","i","o"," ",
                                  "b","o","@","g","m","a","i","l",".","c","o","m">>,
                       priority |-> TRUE] >>] }

\* await browser.close() raises: the browser may or may not have been closed
CloseRaised(open, browser) == {open, open \ {browser}}

\* for attempt in range(self.max_retries): the next attempt begins;
\* create_browser_context: chromium.launch returns a browser
SpLaunch ==
    /\ sp_pc = "for"
    /\ sp_attempt < max_retries
    /\ sp_open' = sp_open \cup {sp_attempt}
    /\ sp_pc' = "new_context"
    /\ UNCHANGED <<appVars, pageVars, parseVars, searchVars, findVars,
                   extractVars, sp_attempt, sp_browser, sp_log, sp_outcome,
                   sp_result>>

\* the loop is exhausted: return []
SpExhausted ==
    /\ sp_pc = "for"
    /\ sp_attempt >= max_retries
    /\ sp_result' = <<>>
    /\ sp_outcome' = "return"
    /\ sp_pc' = "returned"
    /\ UNCHANGED <<appVars, pageVars, parseVars, searchVars, findVars,
                   extractVars, sp_attempt, sp_browser, sp_open, sp_log>>

\* create_browser_context returns: browser, context = ...
SpNewContext ==
    /\ sp_pc = "new_context"
    /\ sp_browser' = sp_attempt
    /\ sp_pc' = "goto"
    /\ UNCHANGED <<appVars, pageVars, parseVars, searchVars, findVars,
                   extractVars, sp_attempt, sp_open, sp_log, sp_outcome,
                   sp_result>>

\* response = await page.goto(..): a response with status < 400
SpGoto ==
    /\ sp_pc = "goto"
    /\ sp_pc' = "content"
    /\ UNCHANGED <<appVars, pageVars, parseVars, searchVars, findVars,
                   extractVars, sp_attempt, sp_browser, sp_open, sp_log,
                   sp_outcome, sp_result>>

\* if response.status >= 400
SpGotoHttpError ==
    /\ sp_pc = "goto"
    /\ sp_pc' = "close_http"
    /\ UNCHANGED <<appVars, pageVars, parseVars, searchVars, findVars,
                   extractVars, sp_attempt, sp_browser, sp_open, sp_log,
                   sp_outcome, sp_result>>

\* a statement of the try body raises: start or chromium.launch (no browser);
\* browser.new_context (create_browser_context re-raises, the caller's browser
\* is not assigned); context.new_page, page.goto, response.status of None;
\* page.wait_for_timeout, page.content
SpTryFail ==
    /\ \/ sp_pc = "for" /\ sp_attempt < max_retries
       \/ sp_pc \in {"new_context", "goto", "content"}
    /\ sp_pc' = "except"
    /\ UNCHANGED <<appVars, pageVars, parseVars, searchVars, findVars,
                   extractVars, sp_attempt, sp_browser, sp_open, sp_log,
                   sp_outcome, sp_result>>

\* HTTP status >= 400: await browser.close(); continue
SpCloseHttp ==
    /\ sp_pc = "close_http"
    /\ sp_open' = sp_open \ {sp_browser}
    /\ sp_log' = Append(sp_log, <<"http">>)
    /\ sp_attempt' = sp_attempt + 1
    /\ sp_pc' = "for"
    /\ UNCHANGED <<appVars, pageVars, parseVars, searchVars, findVars,
                   extractVars, sp_browser, sp_outcome, sp_result>>

\* page.content() .. combined_emails = list(set(..))
SpExtract ==
    /\ sp_pc = "content"
    /\ \E page \in PagePool :
          sp_result' \in Orderings(CombinedSet(page.links, page.regions, pg_investor))
    /\ sp_pc' = "close_ok"
    /\ UNCHANGED <<appVars, pageVars, parseVars, searchVars, findVars,
                   extractVars, sp_attempt, sp_browser, sp_open, sp_log,
                   sp_outcome>>

\* await browser.close(); return combined_emails
SpReturn ==
    /\ sp_pc = "close_ok"
    /\ sp_open' = sp_open \ {sp_browser}
    /\ sp_log' = Append(sp_log, <<"ok", sp_result>>)
    /\ sp_outcome' = "return"
    /\ sp_pc' = "returned"
    /\ UNCHANGED <<appVars, pageVars, parseVars, searchVars, findVars,
                   extractVars, sp_attempt, sp_browser, sp_result>>

\* await browser.close() of the try body raises (after an HTTP status >= 400
\* or before the return)
SpCloseFail ==
    /\ sp_pc \in {"close_http", "close_ok"}
    /\ sp_open' \in CloseRaised(sp_open, sp_browser)
    /\ sp_pc' = "except"
    /\ UNCHANGED <<appVars, pageVars, parseVars, searchVars, findVars,
                   extractVars, sp_attempt, sp_browser, sp_log, sp_outcome,
                   sp_result>>

\* a mutation of SpExcept: the close of the handler is not guarded
SpExcept_Unguarded ==
    /\ sp_pc = "except"
    /\ sp_log' = Append(sp_log, <<"raise">>)
    /\ \/ /\ sp_open' = sp_open \ {sp_browser}
          /\ sp_attempt' = sp_attempt + 1
          /\ sp_pc' = "for"
          /\ UNCHANGED sp_outcome
       \/ /\ sp_browser # Unbound
          /\ sp_open' \in CloseRaised(sp_open, sp_browser)
          /\ sp_outcome' = "raise"
          /\ sp_pc' = "raised"
          /\ UNCHANGED sp_attempt
    /\ UNCHANGED <<appVars, pageVars, parseVars, searchVars, findVars,
                   extractVars, sp_browser, sp_result>>

\* a mutation of SpExcept: the failed attempt is not counted
SpExcept_NotCounted ==
    /\ sp_pc = "except"
    /\ sp_open' \in IF sp_browser # Unbound THEN CloseRaised(sp_open, sp_browser)
                   ELSE {sp_open}
    /\ sp_pc' = "for"
    /\ UNCHANGED <<appVars, pageVars, parseVars, searchVars, findVars, extractVars,
                   sp_attempt, sp_browser, sp_log, sp_outcome, sp_result>>

\* except Exception: if 'browser' in locals(): await browser.close(), which
\* returns, or raises and "except: pass" drops it;
\* if attempt < self.max_retries - 1: await asyncio.sleep(3)
SpExcept ==
    /\ sp_pc = "except"
    /\ sp_open' \in IF sp_browser # Unbound THEN CloseRaised(sp_open, sp_browser)
                   ELSE {sp_open}
    /\ sp_log' = Append(sp_log, <<"raise">>)
    /\ sp_attempt' = sp_attempt + 1
    /\ sp_pc' = "for"
    /\ UNCHANGED <<appVars, pageVars, parseVars, searchVars, findVars,
                   extractVars, sp_browser, sp_outcome, sp_result>>

(***************************************************************************)
(* SpecFetch: one call of scrape_page_for_emails.                          *)
(***************************************************************************)
InitFetch ==
    /\ AppIdle
    /\ pg_pc = "none"
    /\ pg_investor \in {NoName, NamePool[2]}
    /\ pg_links = <<>>
    /\ pg_regions = <<>>
    /\ combined_emails = <<>>
    /\ all_emails = <<>>
    /\ result = <<>>
    /\ NetLocals
    /\ pa_pc = "none"
    /\ raw_text = EmptyStr
    /\ sp_pc = "for"
    /\ se_pc = "none"
    /\ se_max = 0
    /\ fe_pc = "none"
    /\ fe_investor = EmptyStr
    /\ ex_pc = "none"
    /\ ex_text = EmptyStr
    /\ ex_investor = NoName

NextFetch ==
    \/ SpLaunch
    \/ SpExhausted
    \/ SpNewContext
    \/ SpGoto
    \/ SpGotoHttpError
    \/ SpTryFail
    \/ SpCloseHttp
    \/ SpExtract
    \/ SpReturn
    \/ SpCloseFail
    \/ SpExcept

SpecFetch == InitFetch /\ [][NextFetch]_vars

(***************************************************************************)
(* search_alternative_engines: two engines, each with its retry loop; the  *)
(* links of a result page, filtered, split in two tiers and added to urls. *)
(***************************************************************************)
\* the links a result page may hold: two on hosts of the priority list, two
\* on other hosts, one on a host the page script skips
HitPool ==
    { <<"h","t","t","p","s",":","/","/","l","i","n","k","e","d","i","n",".","c","o","m",
        "/","i","n","/","j","o">>,
      <<"h","t","t","p","s",":","/","/","a","c","m","e","c","a","p","i","t","a","l",
        ".","c","o","m","/">>,
      <<"h","t","t","p","s",":","/","/","a","c","m","e",".","i","o","/","t","e","a","m">>,
      <<"h","t","t","p","s",":","/","/","n","e","w","s",".","i","o","/","f","u","n","d">>,
      <<"h","t","t","p","s",":","/","/","y","o","u","t","u","b","e",".","c","o","m",
        "/","x">> }

\* url.split('/')[2]; new URL(href).hostname of the page script, for the
\* links of HitPool (no port, no user)
Host(url) == Split(url, "/")[3]

\* if (href && href.startsWith('http')) and the host holds none of the ten
\* names the page script skips
Acceptable ==
    [href \in HitPool |->
        /\ StartsWith(href, <<"h","t","t","p">>)
        /\ \A d \in { <<"y","o","u","t","u","b","e",".","c","o","m">>,
                      <<"f","a","c","e","b","o","o","k",".","c","o","m">>,
                      <<"t","w","i","t","t","e","r",".","c","o","m">>,
                      <<"i","n","s","t","a","g","r","a","m",".","c","o","m">>,
                      <<"t","i","k","t","o","k",".","c","o","m">>,
                      <<"p","i","n","t","e","r","e","s","t",".","c","o","m">>,
                      <<"r","e","d","d","i","t",".","c","o","m">>,
                      <<"w","i","k","i","p","e","d","i","a",".","o","r","g">>,
                      <<"d","u","c","k","d","u","c","k","g","o",".","c","o","m">>,
                      <<"b","i","n","g",".","c","o","m">> } :
              ~ Contains(Lower(Host(href)), d)]

\* domain = url.split('/')[2].lower();
\* any(indicator in domain for indicator in [...])
Prioritized ==
    [url \in HitPool |->
        \E indicator \in
              { <<"c","a","p","i","t","a","l">>, <<"v","e","n","t","u","r","e","s">>,
                <<"p","a","r","t","n","e","r","s">>, <<"f","u","n","d">>,
                <<"i","n","v","e","s","t">>,
                <<"l","i","n","k","e","d","i","n",".","c","o","m">>,
                <<"c","r","u","n","c","h","b","a","s","e",".","c","o","m">>,
                <<"p","i","t","c","h","b","o","o","k",".","c","o","m">> } :
           Contains(Lower(Host(url)), indicator)]

RECURSIVE Dedupe(_)
\* [...new Set(results)]: the first occurrence of each element, in order
Dedupe(q) ==
    IF q = <<>> THEN <<>>
    ELSE LET front == Dedupe(SubSeq(q, 1, Len(q) - 1))
         IN  IF q[Len(q)] \in SeqToSet(front) THEN front
             ELSE Append(front, q[Len(q)])

\* q[:n] of Python: a negative n counts from the end
Take(q, n) ==
    IF n >= 0 THEN SubSeq(q, 1, IF n < Len(q) THEN n ELSE Len(q))
    ELSE SubSeq(q, 1, Len(q) + n)

\* what the two update calls add, in the order of the page
\* urls.update(prioritized_urls[:5])
\* urls.update(other_urls[:max_results-len(prioritized_urls)])
Added(page_urls, max_results) ==
    LET prioritized_urls == SelectSeq(page_urls, LAMBDA url : Prioritized[url])
        other_urls == SelectSeq(page_urls, LAMBDA url : ~ Prioritized[url])
    IN  Take(prioritized_urls, 5)
           \o Take(other_urls, max_results - Len(prioritized_urls))

\* return list(urls), after the last engine
SeReturn ==
    /\ se_pc = "attempt"
    /\ se_engine > 2
    /\ se_result' \in Orderings(urls)
    /\ se_outcome' = "return"
    /\ se_pc' = "returned"
    /\ UNCHANGED <<appVars, pageVars, parseVars, fetchVars, findVars,
                   extractVars, se_max, se_engine, se_attempt, urls, se_page,
                   se_context, se_browser, se_break, se_open, se_order, se_log,
                   se_yield, se_ok>>

\* for attempt in range(self.max_retries): browser = context = page = None
SeAttempt ==
    /\ se_pc = "attempt"
    /\ se_engine <= 2
    /\ se_attempt < max_retries
    /\ se_page' = FALSE
    /\ se_context' = FALSE
    /\ se_browser' = Unbound
    /\ se_break' = FALSE
    /\ se_log' = Append(se_log, <<se_engine, se_attempt>>)
    /\ se_pc' = "launch"
    /\ UNCHANGED <<appVars, pageVars, parseVars, fetchVars, findVars,
                   extractVars, se_max, se_engine, se_attempt, urls, se_open,
                   se_order, se_yield, se_ok, se_outcome, se_result>>

\* the attempts of the engine are used up
SeAttemptsOver ==
    /\ se_pc = "attempt"
    /\ se_engine <= 2
    /\ se_attempt >= max_retries
    /\ se_pc' = "after"
    /\ UNCHANGED <<appVars, pageVars, parseVars, fetchVars, findVars,
                   extractVars, se_max, se_engine, se_attempt, urls, se_page,
                   se_context, se_browser, se_break, se_open, se_order, se_log,
                   se_yield, se_ok, se_outcome, se_result>>

\* create_browser_context: chromium.launch returns a browser, named by the
\* engine and the attempt
SeLaunch ==
    /\ se_pc = "launch"
    /\ se_open' = se_open \cup {(se_engine - 1) * max_retries + se_attempt}
    /\ se_pc' = "new_context"
    /\ UNCHANGED <<appVars, pageVars, parseVars, fetchVars, findVars,
                   extractVars, se_max, se_engine, se_attempt, urls, se_page,
                   se_context, se_browser, se_break, se_order, se_log, se_yield,
                   se_ok, se_outcome, se_result>>

\* create_browser_context returns: browser, context = ...
SeNewContext ==
    /\ se_pc = "new_context"
    /\ se_browser' = (se_engine - 1) * max_retries + se_attempt
    /\ se_context' = TRUE
    /\ se_pc' = "new_page"
    /\ UNCHANGED <<appVars, pageVars, parseVars, fetchVars, findVars,
                   extractVars, se_max, se_engine, se_attempt, urls, se_page,
                   se_break, se_open, se_order, se_log, se_yield, se_ok,
                   se_outcome, se_result>>

\* page = await context.new_page(); await page.goto(engine['url'], ..);
\* await asyncio.sleep(3)
SeGoto ==
    /\ se_pc = "new_page"
    /\ se_page' = TRUE
    /\ se_pc' = "evaluate"
    /\ UNCHANGED <<appVars, pageVars, parseVars, fetchVars, findVars,
                   extractVars, se_max, se_engine, se_attempt, urls, se_context,
                   se_browser, se_break, se_open, se_order, se_log, se_yield,
                   se_ok, se_outcome, se_result>>

\* page_urls = await page.evaluate(..); the two tiers; urls.update; break
SeEvaluate ==
    /\ se_pc = "evaluate"
    /\ \E links \in SeqsUpTo(HitPool, MaxHits) :
          LET page_urls == Dedupe(SelectSeq(links, LAMBDA href : Acceptable[href]))
              added == Added(page_urls, se_max)
          IN  /\ urls' = urls \cup SeqToSet(added)
              /\ se_order' = se_order \o SelectSeq(added, LAMBDA url : url \notin urls)
    /\ se_break' = TRUE
    /\ se_ok' = se_ok \cup {se_engine}
    /\ se_pc' = "finally"
    /\ UNCHANGED <<appVars, pageVars, parseVars, fetchVars, findVars,
                   extractVars, se_max, se_engine, se_attempt, se_page,
                   se_context, se_browser, se_open, se_log, se_yield,
                   se_outcome, se_result>>

\* a statement of the try body raises and "except Exception" logs it: start
\* or chromium.launch (no browser); browser.new_context (re-raised by
\* create_browser_context, the caller's browser stays None); context.new_page
\* (page stays None); page.goto or page.evaluate
SeTryFail ==
    /\ se_pc \in {"launch", "new_context", "new_page", "evaluate"}
    /\ se_page' \in IF se_pc = "new_page" THEN BOOLEAN ELSE {se_page}
    /\ se_pc' = "finally"
    /\ UNCHANGED <<appVars, pageVars, parseVars, fetchVars, findVars,
                   extractVars, se_max, se_engine, se_attempt, urls, se_context,
                   se_browser, se_break, se_open, se_order, se_log, se_yield,
                   se_ok, se_outcome, se_result>>

\* finally: if page: await page.close()
SeClosePage ==
    /\ se_pc = "finally"
    /\ se_pc' = "finally_context"
    /\ UNCHANGED <<appVars, pageVars, parseVars, fetchVars, findVars,
                   extractVars, se_max, se_engine, se_attempt, urls, se_page,
                   se_context, se_browser, se_break, se_open, se_order, se_log,
                   se_yield, se_ok, se_outcome, se_result>>

\* finally: if context: await context.close()
SeCloseContext ==
    /\ se_pc = "finally_context"
    /\ se_pc' = "finally_browser"
    /\ UNCHANGED <<appVars, pageVars, parseVars, fetchVars, findVars,
                   extractVars, se_max, se_engine, se_attempt, urls, se_page,
                   se_context, se_browser, se_break, se_open, se_order, se_log,
                   se_yield, se_ok, se_outcome, se_result>>

\* finally: if browser: await browser.close(); then the break leaves the retry
\* loop, or the loop goes to its next attempt
SeCloseBrowser ==
    /\ se_pc = "finally_browser"
    /\ se_open' = se_open \ {se_browser}
    /\ IF se_break
          THEN se_pc' = "after" /\ se_attempt' = se_attempt
          ELSE se_pc' = "attempt" /\ se_attempt' = se_attempt + 1
    /\ UNCHANGED <<appVars, pageVars, parseVars, fetchVars, findVars,
                   extractVars, se_max, se_engine, urls, se_page, se_context,
                   se_browser, se_break, se_order, se_log, se_yield, se_ok,
                   se_outcome, se_result>>

\* finally: page.close(), context.close() or browser.close() raises; the
\* exception leaves the function and the closes after it are not made
SeCloseFail ==
    /\ \/ se_pc = "finally" /\ se_page
       \/ se_pc = "finally_context" /\ se_context
       \/ se_pc = "finally_browser" /\ se_browser # Unbound
    /\ se_open' \in IF se_pc = "finally_browser" THEN CloseRaised(se_open, se_browser)
                   ELSE {se_open}
    /\ se_outcome' = "raise"
    /\ se_pc' = "raised"
    /\ UNCHANGED <<appVars, pageVars, parseVars, fetchVars, findVars,
                   extractVars, se_max, se_engine, se_attempt, urls, se_page,
                   se_context, se_browser, se_break, se_order, se_log, se_yield,
                   se_ok, se_result>>

\* a mutation of SeAfter: the function returns after the first engine
SeAfter_FirstEngineOnly ==
    /\ se_pc = "after"
    /\ se_yield' = Append(se_yield, Cardinality(urls))
    /\ se_engine' = 3
    /\ se_attempt' = 0
    /\ se_pc' = "attempt"
    /\ UNCHANGED <<appVars, pageVars, parseVars, fetchVars, findVars,
                   extractVars, se_max, urls, se_page, se_context, se_browser,
                   se_break, se_open, se_order, se_log, se_ok, se_outcome,
                   se_result>>

\* after the retry loop of an engine: if len(urls) < max_results: sleep; then
\* the next engine, whatever len(urls) is
SeAfter ==
    /\ se_pc = "after"
    /\ se_yield' = Append(se_yield, Cardinality(urls))
    /\ se_engine' = se_engine + 1
    /\ se_attempt' = 0
    /\ se_pc' = "attempt"
    /\ UNCHANGED <<appVars, pageVars, parseVars, fetchVars, findVars,
                   extractVars, se_max, urls, se_page, se_context, se_browser,
                   se_break, se_open, se_order, se_log, se_ok, se_outcome,
                   se_result>>

(***************************************************************************)
(* SpecSearch: one call of search_alternative_engines.                     *)
(***************************************************************************)
InitSearch ==
    /\ AppIdle
    /\ PageIdle
    /\ NetLocals
    /\ pa_pc = "none"
    /\ raw_text = EmptyStr
    /\ sp_pc = "none"
    /\ se_pc = "attempt"
    /\ se_max \in 1..MaxResults
    /\ fe_pc = "none"
    /\ fe_investor = EmptyStr
    /\ ex_pc = "none"
    /\ ex_text = EmptyStr
    /\ ex_investor = NoName

NextSearch ==
    \/ SeReturn
    \/ SeAttempt
    \/ SeAttemptsOver
    \/ SeLaunch
    \/ SeNewContext
    \/ SeGoto
    \/ SeEvaluate
    \/ SeTryFail
    \/ SeClosePage
    \/ SeCloseContext
    \/ SeCloseBrowser
    \/ SeCloseFail
    \/ SeAfter

SpecSearch == InitSearch /\ [][NextSearch]_vars

(***************************************************************************)
(* find_emails_for_investor: four queries; for each the URLs of            *)
(* search_alternative_engines, scraped one after the other. The two calls  *)
(* are taken by their outcomes: search_alternative_engines returns a list  *)
(* of distinct URLs or raises out of its finally block;                    *)
(* scrape_page_for_emails returns a list of distinct emails and does not   *)
(* raise.                                                                  *)
(***************************************************************************)
\* the four queries of an investor
queries(investor_name) ==
    LET quoted == <<"\"">> \o investor_name \o <<"\"">>
    IN  IF classify_investor_type(investor_name) = "person"
        THEN << quoted \o <<" ","e","m","a","i","l"," ","c","o","n","t","a","c","t"," ",
                             "i","n","v","e","s","t","o","r">>,
                quoted \o <<" ","c","o","n","t","a","c","t"," ","i","n","f","o","r","m",
                             "a","t","i","o","n">>,
                quoted \o <<" ","l","i","n","k","e","d","i","n"," ","i","n","v","e","s",
                             "t","o","r"," ","e","m","a","i","l">>,
                quoted \o <<" ","v","e","n","t","u","r","e"," ","c","a","p","i","t","a",
                             "l"," ","e","m","a","i","l">> >>
        ELSE << quoted \o <<" ","c","o","n","t","a","c","t"," ","e","m","a","i","l"," ",
                             "t","e","a","m">>,
                quoted \o <<" ","i","n","v","e","s","t","m","e","n","t"," ","c","o","n",
                             "t","a","c","t">>,
                quoted \o <<" ","p","o","r","t","f","o","l","i","o"," ","t","e","a","m",
                             " ","e","m","a","i","l">>,
                quoted \o <<" ","p","a","r","t","n","e","r","s"," ","c","o","n","t","a",
                             "c","t">> >>

\* list(urls) of search_alternative_engines: distinct URLs in any order, of
\* one of linkedin.com, one that holds the collapsed name of NamePool[1] and
\* one that holds neither; and a list of 6 URLs, longer than the urls[:5] that
\* are scraped
UrlLists ==
    LET pool ==
          { <<"h","t","t","p","s",":","/","/","l","i","n","k","e","d","i","n",".","c",
              "o","m","/","i","n","/","j","o">>,
            <<"h","t","t","p","s",":","/","/","a","c","m","e",".","i","o","/","J","a",
              "n","e","D","o","e">>,
            <<"h","t","t","p","s",":","/","/","a","c","m","e",".","i","o","/","t","e",
              "a","m">> }
        page(c) == <<"h","t","t","p","s",":","/","/","a","c","m","e",".","i","o","/",c>>
    IN  UNION { Orderings(S) : S \in {T \in SUBSET pool : Cardinality(T) <= MaxUrls} }
           \cup { <<page("a"), page("b"), page("c"), page("d"), page("e"), page("f")>> }

\* what scrape_page_for_emails may return
ScrapedLists == { <<>>, <<Email1>>, <<Email1, <<"c","@","d",".","i","o">> >> }

\* len(emails) >= 2 and any('linkedin.com' in url or
\*     investor_name.lower().replace(' ', '') in url.lower() for url in [url])
EarlyExit(emails, url, investor_name) ==
    /\ Len(emails) >= 2
    /\ \/ Contains(url, <<"l","i","n","k","e","d","i","n",".","c","o","m">>)
       \/ Contains(Lower(url), Remove(Lower(investor_name), <<" ">>))

\* for query in queries: urls = await self.search_alternative_engines(query, 8)
FeSearch ==
    /\ fe_pc = "query"
    /\ fe_k <= Len(queries(fe_investor))
    /\ fe_urls' \in UrlLists
    /\ fe_i' = 1
    /\ fe_log' = <<>>
    /\ fe_queries' = Append(fe_queries, queries(fe_investor)[fe_k])
    /\ fe_pc' = "url"
    /\ UNCHANGED <<appVars, pageVars, parseVars, fetchVars, searchVars,
                   extractVars, fe_investor, fe_k, fe_all, fe_exits, fe_raised,
                   fe_outcome, fe_result>>

\* a mutation of FeSearchRaise: the exception of a query leaves the function
FeSearchRaise_Propagate ==
    /\ fe_pc = "query"
    /\ fe_k <= Len(queries(fe_investor))
    /\ fe_log' = <<>>
    /\ fe_queries' = Append(fe_queries, queries(fe_investor)[fe_k])
    /\ fe_raised' = Append(fe_raised, <<fe_k, fe_all>>)
    /\ fe_outcome' = "raise"
    /\ fe_pc' = "raised"
    /\ UNCHANGED <<appVars, pageVars, parseVars, fetchVars, searchVars,
                   extractVars, fe_investor, fe_k, fe_urls, fe_i, fe_all,
                   fe_exits, fe_result>>

\* search_alternative_engines raises: except Exception logs it and the loop
\* goes to the next query
FeSearchRaise ==
    /\ fe_pc = "query"
    /\ fe_k <= Len(queries(fe_investor))
    /\ fe_log' = <<>>
    /\ fe_queries' = Append(fe_queries, queries(fe_investor)[fe_k])
    /\ fe_raised' = Append(fe_raised, <<fe_k, fe_all>>)
    /\ fe_k' = fe_k + 1
    /\ UNCHANGED <<appVars, pageVars, parseVars, fetchVars, searchVars,
                   extractVars, fe_pc, fe_investor, fe_urls, fe_i, fe_all,
                   fe_exits, fe_outcome, fe_result>>

\* a mutation of FeScrape: the URL loop runs over urls, not over urls[:5]
FeScrape_NoLimit ==
    /\ fe_pc = "url"
    /\ fe_i <= Len(fe_urls)
    /\ \E emails \in ScrapedLists :
          /\ fe_all' = fe_all \cup Collected(emails)
          /\ fe_log' = Append(fe_log, <<fe_urls[fe_i], emails>>)
          /\ IF emails # <<>> /\ EarlyExit(emails, fe_urls[fe_i], fe_investor)
                THEN /\ fe_exits' = fe_exits \cup {fe_k}
                     /\ fe_k' = fe_k + 1
                     /\ fe_pc' = "query"
                     /\ fe_i' = fe_i
                ELSE /\ fe_exits' = fe_exits
                     /\ fe_k' = fe_k
                     /\ fe_pc' = "url"
                     /\ fe_i' = fe_i + 1
    /\ UNCHANGED <<appVars, pageVars, parseVars, fetchVars, searchVars,
                   extractVars, fe_investor, fe_urls, fe_queries, fe_raised,
                   fe_outcome, fe_result>>

\* a mutation of FeScrape: the URL loop has no break
FeScrape_NoBreak ==
    /\ fe_pc = "url"
    /\ fe_i <= Len(Take(fe_urls, 5))
    /\ \E emails \in ScrapedLists :
          /\ fe_all' = fe_all \cup Collected(emails)
          /\ fe_log' = Append(fe_log, <<fe_urls[fe_i], emails>>)
    /\ fe_i' = fe_i + 1
    /\ UNCHANGED <<appVars, pageVars, parseVars, fetchVars, searchVars,
                   extractVars, fe_pc, fe_investor, fe_k, fe_urls, fe_queries,
                   fe_exits, fe_raised, fe_outcome, fe_result>>

\* for i, url in enumerate(urls[:5]): emails = await scrape_page_for_emails(..);
\* if emails: all_emails.update(emails); then the break (and the delay after
\* the URL loop, and the next query), or the delay between two scrapes
FeScrape ==
    /\ fe_pc = "url"
    /\ fe_i <= Len(Take(fe_urls, 5))
    /\ \E emails \in ScrapedLists :
          /\ fe_all' = fe_all \cup Collected(emails)
          /\ fe_log' = Append(fe_log, <<fe_urls[fe_i], emails>>)
          /\ IF emails # <<>> /\ EarlyExit(emails, fe_urls[fe_i], fe_investor)
                THEN /\ fe_exits' = fe_exits \cup {fe_k}
                     /\ fe_k' = fe_k + 1
                     /\ fe_pc' = "query"
                     /\ fe_i' = fe_i
                ELSE /\ fe_exits' = fe_exits
                     /\ fe_k' = fe_k
                     /\ fe_pc' = "url"
                     /\ fe_i' = fe_i + 1
    /\ UNCHANGED <<appVars, pageVars, parseVars, fetchVars, searchVars,
                   extractVars, fe_investor, fe_urls, fe_queries, fe_raised,
                   fe_outcome, fe_result>>

\* urls[:5] is used up: the delay after the URL loop (2-4 s when all_emails
\* holds an address, else 5-8 s), and the next query
FeUrlsDone ==
    /\ fe_pc = "url"
    /\ fe_i > Len(Take(fe_urls, 5))
    /\ fe_k' = fe_k + 1
    /\ fe_pc' = "query"
    /\ UNCHANGED <<appVars, pageVars, parseVars, fetchVars, searchVars,
                   extractVars, fe_investor, fe_urls, fe_i, fe_all, fe_log,
                   fe_queries, fe_exits, fe_raised, fe_outcome, fe_result>>

\* return list(all_emails)
FeReturn ==
    /\ fe_pc = "query"
    /\ fe_k > Len(queries(fe_investor))
    /\ fe_result' \in Orderings(fe_all)
    /\ fe_outcome' = "return"
    /\ fe_pc' = "returned"
    /\ UNCHANGED <<appVars, pageVars, parseVars, fetchVars, searchVars,
                   extractVars, fe_investor, fe_k, fe_urls, fe_i, fe_all,
                   fe_log, fe_queries, fe_exits, fe_raised>>

(***************************************************************************)
(* SpecFind: one call of find_emails_for_investor.                         *)
(***************************************************************************)
InitFind ==
    /\ AppIdle
    /\ PageIdle
    /\ NetLocals
    /\ pa_pc = "none"
    /\ raw_text = EmptyStr
    /\ sp_pc = "none"
    /\ se_pc = "none"
    /\ se_max = 0
    /\ fe_pc = "query"
    /\ fe_investor \in {NamePool[1], NamePool[2]}
    /\ ex_pc = "none"
    /\ ex_text = EmptyStr
    /\ ex_investor = NoName

NextFind ==
    \/ FeSearch
    \/ FeSearchRaise
    \/ FeScrape
    \/ FeUrlsDone
    \/ FeReturn

SpecFind == InitFind /\ [][NextFind]_vars

(***************************************************************************)
(* extract_emails as a call: the matches, the filtered list, the returned  *)
(* list.                                                                   *)
(***************************************************************************)
\* the words a text may hold
WordPool ==
    { <<"j","o","@","a","c","m","e",".","i","o">>,
      <<"J","o","@","A","c","m","e",".","i","o">>,
      <<"I","n","f","o","@","a","c","m","e",".","i","o">>,
      <<"x","@","e","x","a","m","p","l","e",".","c","o","m">>,
      <<"b","o","@","g","m","a","i","l",".","c","o","m">>,
      <<"m","a","i","l">> }

\* emails = re.findall(email_pattern, text, re.IGNORECASE)
ExFindAll ==
    /\ ex_pc = "findall"
    /\ ex_emails' = FindAll(ex_text)
    /\ ex_pc' = "filter"
    /\ UNCHANGED <<appVars, pageVars, parseVars, fetchVars, searchVars,
                   findVars, ex_text, ex_investor, ex_filtered, ex_result>>

\* for email in emails: .. filtered_emails.append(email)
ExFilter ==
    /\ ex_pc = "filter"
    /\ ex_filtered' = Filtered(ex_emails, ex_investor)
    /\ ex_pc' = "return"
    /\ UNCHANGED <<appVars, pageVars, parseVars, fetchVars, searchVars,
                   findVars, ex_text, ex_investor, ex_emails, ex_result>>

\* return list(set(filtered_emails))
ExReturn ==
    /\ ex_pc = "return"
    /\ ex_result' \in Orderings(SeqToSet(ex_filtered))
    /\ ex_pc' = "returned"
    /\ UNCHANGED <<appVars, pageVars, parseVars, fetchVars, searchVars,
                   findVars, ex_text, ex_investor, ex_emails, ex_filtered>>

(***************************************************************************)
(* SpecExtract: one call of extract_emails.                                *)
(***************************************************************************)
InitExtract ==
    /\ AppIdle
    /\ PageIdle
    /\ NetLocals
    /\ pa_pc = "none"
    /\ raw_text = EmptyStr
    /\ sp_pc = "none"
    /\ se_pc = "none"
    /\ se_max = 0
    /\ fe_pc = "none"
    /\ fe_investor = EmptyStr
    /\ ex_pc = "findall"
    /\ ex_text \in {Join(words, <<" ">>) : words \in SeqsUpTo(WordPool, MaxWords)}
    /\ ex_investor \in {NoName, NamePool[1], NamePool[2]}

NextExtract ==
    \/ ExFindAll
    \/ ExFilter
    \/ ExReturn

SpecExtract == InitExtract /\ [][NextExtract]_vars

(***************************************************************************)
(* parse_investor_list                                                     *)
(***************************************************************************)
\* the separator of line 71, three characters in the source file
Bullet == <<"U+201A", "U+00C4", "U+00A2">>

RECURSIVE Replace(_, _, _)
\* s.replace(old, new), for a non-empty old
Replace(s, old, new) ==
    IF Len(s) < Len(old) THEN s
    ELSE IF SubSeq(s, 1, Len(old)) = old
         THEN new \o Replace(SubSeq(s, Len(old) + 1, Len(s)), old, new)
         ELSE <<s[1]>> \o Replace(Tail(s), old, new)

RECURSIVE SubBeforeCaps(_, _)
\* re.sub(r'(?<=[a-z])(?=[A-Z][A-Z])', '\n', t), from position p on: a newline
\* is put at every place behind a lower-case letter and before two capitals
SubBeforeCaps(t, p) ==
    IF p > Len(t) THEN <<>>
    ELSE IF /\ p > 1
            /\ p < Len(t)
            /\ t[p - 1] \in Letters \ DOMAIN LowerMap
            /\ t[p] \in DOMAIN LowerMap
            /\ t[p + 1] \in DOMAIN LowerMap
         THEN <<"\n", t[p]>> \o SubBeforeCaps(t, p + 1)
         ELSE <<t[p]>> \o SubBeforeCaps(t, p + 1)

RECURSIVE SubCamel(_, _)
\* re.sub(r'([a-z])([A-Z][a-z])', r'\1\n\2', t), from position p on: the matches
\* are found from left to right and do not overlap
SubCamel(t, p) ==
    IF p > Len(t) THEN <<>>
    ELSE IF /\ p + 2 <= Len(t)
            /\ t[p] \in Letters \ DOMAIN LowerMap
            /\ t[p + 1] \in DOMAIN LowerMap
            /\ t[p + 2] \in Letters \ DOMAIN LowerMap
         THEN <<t[p], "\n", t[p + 1], t[p + 2]>> \o SubCamel(t, p + 3)
         ELSE <<t[p]>> \o SubCamel(t, p + 1)

\* for line in text.split('\n'): line = line.strip(); if line and len(line) > 2
CleanLines(t) ==
    LET lines == Split(t, "\n")
    IN  SelectSeq([k \in 1..Len(lines) |-> Strip(lines[k])],
                  LAMBDA line : line # <<>> /\ Len(line) > 2)

RECURSIVE Unique_CaseSensitive(_, _)
\* a mutation of Unique: the names are compared as they are spelled
Unique_CaseSensitive(investors, seen) ==
    IF investors = <<>> THEN <<>>
    ELSE IF Head(investors) \in seen
         THEN Unique_CaseSensitive(Tail(investors), seen)
         ELSE <<Head(investors)>>
                 \o Unique_CaseSensitive(Tail(investors), seen \cup {Head(investors)})

RECURSIVE Unique(_, _)
\* for investor in investors: if investor.lower() not in seen: ..
Unique(investors, seen) ==
    IF investors = <<>> THEN <<>>
    ELSE IF Lower(Head(investors)) \in seen
         THEN Unique(Tail(investors), seen)
         ELSE <<Head(investors)>>
                 \o Unique(Tail(investors), seen \cup {Lower(Head(investors))})

\* text after the three replacements of lines 71-73
Separated(t) ==
    SubCamel(SubBeforeCaps(Replace(t, Bullet, <<"\n">>), 1), 1)

parse_investor_list(t) == Unique(CleanLines(Separated(t)), {})

\* text = raw_text.replace(..); text = re.sub(..); text = re.sub(..)
PaSeparate ==
    /\ pa_pc = "replace"
    /\ pa_text' = Separated(raw_text)
    /\ pa_pc' = "lines"
    /\ UNCHANGED <<appVars, pageVars, fetchVars, searchVars, findVars,
                   extractVars, raw_text, unique_investors>>

\* the two loops, and return unique_investors
PaCollect ==
    /\ pa_pc = "lines"
    /\ unique_investors' = Unique(CleanLines(pa_text), {})
    /\ pa_pc' = "returned"
    /\ UNCHANGED <<appVars, pageVars, fetchVars, searchVars, findVars,
                   extractVars, raw_text, pa_text>>

(***************************************************************************)
(* SpecParse: one call of parse_investor_list.                             *)
(***************************************************************************)
InitParse ==
    /\ AppIdle
    /\ PageIdle
    /\ NetLocals
    /\ sp_pc = "none"
    /\ se_pc = "none"
    /\ se_max = 0
    /\ fe_pc = "none"
    /\ fe_investor = EmptyStr
    /\ ex_pc = "none"
    /\ ex_text = EmptyStr
    /\ ex_investor = NoName
    /\ pa_pc = "replace"
    /\ raw_text \in
          {Join(tokens, <<>>) :
              tokens \in SeqsUpTo({<<"a">>, <<"A">>, <<" ">>, <<"\n">>, Bullet}, MaxTokens)}

NextParse ==
    \/ PaSeparate
    \/ PaCollect

SpecParse == InitParse /\ [][NextParse]_vars

(***************************************************************************)
(* SpecTerm: the loops of a batch. A behaviour is one batch, whose          *)
(* resolutions return or raise, or one call of one of the three functions  *)
(* a resolution is made of; a step that can be taken is taken in the end   *)
(* (each navigation returns or fails within its timeout, each delay        *)
(* elapses, each await returns or raises).                                 *)
(***************************************************************************)
InitTerm ==
    \/ InitBatch
    \/ InitFetch
    \/ InitSearch
    \/ InitFind

NextTerm ==
    \/ WorkerStep(1)
    \/ NextFetch
    \/ NextSearch
    \/ NextFind

SpecTerm == InitTerm /\ [][NextTerm]_vars /\ WF_vars(NextTerm)

(***************************************************************************)
(* Properties of the application (Spec).                                   *)
(***************************************************************************)
\* C1: at most one worker thread is inside process_all_investors at any time.
C1_AtMostOneWorker ==
    Cardinality({w \in Workers : pc[w] \in InBatch}) <= 1

\* C2: once /stop_scraping has set running to False during a worker's batch (and
\* the flag is still False), that worker starts no further investor.
C2_StopObserved ==
    [][\A w \in Workers :
          (w \in stopSeen /\ ~task_status.running /\ pc[w] \in InBatch)
             => idx'[w] = idx[w]]_vars

\* the worker has been started and has not yet made its final status update
BeforeFinalUpdate == {"begin", "final", "except"} \cup InBatch

\* C9: while a worker is between its start and its final status update, every
\* change of task_status is a step of that worker.
C9_SingleWriter ==
    [][\A w \in Workers :
          (pc[w] \in BeforeFinalUpdate /\ task_status' # task_status)
             => pc'[w] # pc[w]]_vars

(***************************************************************************)
(* Properties of one batch (SpecBatch).                                    *)
(***************************************************************************)
\* C3: when process_all_investors returns, results has one row per input name,
\* the i-th row carrying the i-th name, whatever resolutions raised.
C3_RowsMatchNames ==
    \A w \in Workers :
       pc[w] = "final" =>
          /\ Len(results[w]) = Len(names[w])
          /\ \A j \in 1..Len(names[w]) : results[w][j].investor_name = names[w][j]

C3_Witness ==
    /\ pc[1] = "final"
    /\ Len(names[1]) >= 3
    /\ \E j \in 1..Len(results[1]) : results[1][j].status = "Error"
    /\ \E j \in 1..Len(results[1]) : results[1][j].status = "Success"

\* C4: a resolution that raises for investor i leaves a row i with status Error,
\* emails_found 0 and 'Error: <message>' in emails; the exception does not leave
\* process_all_investors, which goes on to return a row for every investor.
C4_RaiseIsolated ==
    \A w \in Workers :
       /\ \A e \in raised[w] :
             /\ Len(results[w]) >= e[1]
             /\ results[w][e[1]].investor_name = names[w][e[1]]
             /\ results[w][e[1]].status = "Error"
             /\ results[w][e[1]].emails_found = 0
             /\ results[w][e[1]].emails = <<"E","r","r","o","r",":"," ">> \o e[2]
       /\ pc[w] = "except" => exc[w] \notin Messages
       /\ (pc[w] = "final" /\ raised[w] # {}) => Len(results[w]) = Len(names[w])

C4_Witness ==
    /\ pc[1] = "final"
    /\ \E e \in raised[1] : e[1] < Len(names[1])
    /\ Len(results[1]) = Len(names[1])

\* the investors after whose row save_results has been called so far
SavedAt(w) == {saveLog[w][j].at : j \in 1..Len(saveLog[w])}

\* C5: save_results is called after row i exactly when i mod 10 = 0 or i = n, once,
\* with all i rows; when the call has returned the file holds exactly those i rows.
C5_Checkpoints ==
    \A w \in Workers :
       pc[w] \in InBatch \cup {"final"} =>
          LET n == Len(names[w])
              due == {i \in 1..Len(results[w]) : i % 10 = 0 \/ i = n}
              pending == IF pc[w] = "save_open" THEN {idx[w]} ELSE {}
          IN  /\ SavedAt(w) = due \ pending
              /\ Len(saveLog[w]) = Cardinality(due \ pending)
              /\ \A j \in 1..Len(saveLog[w]) :
                    /\ saveLog[w][j].rows = saveLog[w][j].at
                    /\ saveLog[w][j].file = output_file[w]
              /\ (saveLog[w] # <<>> /\ pc[w] # "save_write") =>
                    LET last == saveLog[w][Len(saveLog[w])].at
                    IN  /\ files[output_file[w]].exists
                        /\ files[output_file[w]].header
                        /\ files[output_file[w]].rows = SubSeq(results[w], 1, last)
                        /\ Len(files[output_file[w]].rows) = last

C5_Witness ==
    /\ pc[1] = "final"
    /\ Len(names[1]) = 11
    /\ [j \in 1..Len(saveLog[1]) |-> saveLog[1][j].at] = <<10, 11>>
    /\ Len(files[output_file[1]].rows) = 11

\* C6: after a crash, once a save_results call has completed, the results file
\* holds the complete rows of the last completed call.
C6_CrashKeepsCheckpoint ==
    \A w \in Workers :
       (pc[w] = "crashed" /\ lastSaved[w] > 0) =>
          files[output_file[w]] = Written(SubSeq(results[w], 1, lastSaved[w]))

\* C10: progress_callback is called once per name, with (i, n, name_i) for
\* i = 1, 2, ... in order, after row i - 1 was appended and before the resolution
\* of name_i.
C10_CallbackOrder ==
    \A w \in Workers :
       pc[w] \in InBatch \cup {"final"} =>
          /\ Len(cbLog[w]) = idx[w]
          /\ \A j \in 1..Len(cbLog[w]) :
                cbLog[w][j] = [i |-> j, total |-> Len(names[w]),
                               name |-> names[w][j], rows |-> j - 1]
          /\ pc[w] = "resolve" => Len(results[w]) = idx[w] - 1
          /\ pc[w] = "final" => Len(cbLog[w]) = Len(names[w])

C10_Witness ==
    /\ pc[1] = "final"
    /\ Len(cbLog[1]) = 3

\* str(e) of what save_results raises
SaveMessages == { <<"o","p","e","n">>, <<"w","r","i","t","e">> }

\* C24: when save_results has raised, the exception has left
\* process_all_investors, the worker sets running to False and current_investor
\* to 'Error: <message>', never to 'Completed', and scraper.close() is called.
C24_SaveFailureReported ==
    \A w \in Workers :
       exc[w] \in SaveMessages =>
          /\ pc[w] \in {"except", "close", "end", "crashed"}
          /\ task_status.current_investor # Completed
          /\ pc[w] \in {"close", "end"} =>
                /\ ~ task_status.running
                /\ task_status.current_investor = <<"E","r","r","o","r",":"," ">> \o exc[w]
          /\ pc[w] = "end" => Len(closeLog[w]) = 1

\* the tenth row was saved, the save after the eleventh raised while writing,
\* and the scraper has been closed
C24_Witness ==
    /\ pc[1] = "end"
    /\ exc[1] = <<"w","r","i","t","e">>
    /\ task_status.total = 11
    /\ task_status.progress = 11
    /\ Len(files[0].rows) = 0
    /\ closeLog[1] # <<>>

\* the statement of C25 as it was made: close() is called once per batch, after
\* process_all_investors has ended, and leaves playwright_instance None
C25_CloseLeavesNone ==
    \A w \in Workers :
       /\ pc[w] \in InBatch \cup {"begin", "final", "except", "close"} =>
             closeLog[w] = <<>>
       /\ pc[w] = "end" =>
             /\ Len(closeLog[w]) = 1
             /\ ~ playwright_instance[w]
             /\ ~ closeLog[w][1].held =>
                   ~ closeLog[w][1].stopped /\ ~ closeLog[w][1].raised

\* C25 (amended): run_scraping_task calls scraper.close() once per batch, on the
\* normal and on the failure path, after process_all_investors has ended; a
\* close() that returns leaves playwright_instance None (one whose stop() raises
\* leaves the instance in the field), and a close() called when no instance is
\* held stops nothing and raises nothing.
C25_CloseOnce ==
    \A w \in Workers :
       /\ pc[w] \in InBatch \cup {"begin", "final", "except", "close"} =>
             closeLog[w] = <<>>
       /\ pc[w] = "end" =>
             /\ Len(closeLog[w]) = 1
             /\ playwright_instance[w] <=> closeLog[w][1].raised
             /\ closeLog[w][1].raised => closeLog[w][1].held
             /\ closeLog[w][1].stopped <=> (closeLog[w][1].held /\ ~ closeLog[w][1].raised)

\* on the failure path, with an instance held, close() has stopped it
C25_Witness ==
    /\ pc[1] = "end"
    /\ exc[1] # EmptyStr
    /\ closeLog[1] = << [held |-> TRUE, stopped |-> TRUE, raised |-> FALSE] >>
    /\ ~ playwright_instance[1]

\* C26: a delay is taken after investor i exactly when i < n, after the row was
\* appended and after the checkpoint save of that investor if one was due; the
\* next iteration begins after the delay, and after investor n the loop ends
\* directly after the final save.
C26_DelayBetweenInvestors ==
    [][\A w \in Workers :
          /\ (pc'[w] = "delay" /\ pc[w] # "delay") =>
                /\ idx[w] < Len(names[w])
                /\ Len(results'[w]) = idx[w]
                /\ (idx[w] % 10 = 0) => (pc[w] = "save_write" /\ lastSaved'[w] = idx[w])
          /\ (pc'[w] = "loop" /\ pc[w] \in InBatch \ {"loop"}) =>
                IF idx[w] < Len(names[w])
                THEN pc[w] = "delay"
                ELSE pc[w] = "save_write" /\ lastSaved'[w] = idx[w]
       ]_vars

\* the delay after the tenth of eleven investors, whose checkpoint was saved
C26_Witness ==
    /\ pc[1] = "delay"
    /\ idx[1] = 10
    /\ Len(names[1]) = 11
    /\ lastSaved[1] = 10

\* C29: progress is between 0 and total, and current_investor is empty,
\* 'Completed', an error text, or a name of the batch whose total is recorded.
C29_ProgressWithinTotal ==
    /\ 0 <= task_status.progress
    /\ task_status.progress <= task_status.total
    /\ \/ task_status.current_investor = EmptyStr
       \/ task_status.current_investor = Completed
       \/ StartsWith(task_status.current_investor, ErrorPrefix)
       \/ \E w \in Workers :
             /\ Len(names[w]) = task_status.total
             /\ \E j \in 1..Len(names[w]) :
                   task_status.current_investor = names[w][j]

\* C30: the file name a worker passes to process_all_investors is the one its
\* own request recorded (from the request's update to the thread's reading it
\* task_status['results_file'] is not written again), and no two workers
\* write to the same results file.
C30_OwnResultsFile ==
    /\ [](\A w, v \in Workers :
            (w # v /\ pc[w] \in InBatch /\ pc[v] \in InBatch) =>
                output_file[w] # output_file[v])
    /\ [][\A w \in Workers :
            pc[w] = "begin" =>
                task_status'.results_file = task_status.results_file]_vars

\* C31: when a batch ends with current_investor 'Completed', the file named by
\* task_status.results_file has been written and holds exactly one row per
\* investor of the batch, in order; a batch of no names included.
C31_CompletedFileWritten ==
    /\ [](\A w \in Workers :
            (pc[w] \in {"close", "end", "done"}
                /\ task_status.current_investor = Completed) =>
                /\ files[task_status.results_file].exists
                /\ files[task_status.results_file].header
                /\ Len(files[task_status.results_file].rows) = task_status.total)
    /\ [][\A w \in Workers :
            (pc[w] = "final" /\ task_status'.current_investor = Completed) =>
                LET f == files'[task_status'.results_file]
                IN  /\ f.exists
                    /\ Len(f.rows) = Len(names[w])
                    /\ \A j \in 1..Len(names[w]) :
                          f.rows[j].investor_name = names[w][j]]_vars

(***************************************************************************)
(* Properties of the rows built from a page (SpecPage).                    *)
(***************************************************************************)
RECURSIVE SplitStr(_, _)
\* the pieces of s between the occurrences of the string sep
SplitStr(s, sep) ==
    IF ~ Contains(s, sep) THEN <<s>>
    ELSE LET k == CHOOSE x \in 1..Len(s) :
                     /\ SubSeq(s, x, x + Len(sep) - 1) = sep
                     /\ \A y \in 1..(x - 1) : SubSeq(s, y, y + Len(sep) - 1) # sep
         IN  <<SubSeq(s, 1, k - 1)>> \o SplitStr(SubSeq(s, k + Len(sep), Len(s)), sep)

\* the distinct addresses an emails field holds
AddressesIn(field) ==
    IF field = NoneFound THEN {}
    ELSE SeqToSet(SplitStr(field, <<";"," ">>)) \ {<<>>}

\* C7: a Success row's emails_found is the number of distinct addresses in its
\* emails field, and a row's emails field is 'None found' iff emails_found is 0.
C7_RowCounts ==
    pg_pc = "row" =>
       /\ result.status = "Success" =>
             result.emails_found = Cardinality(AddressesIn(result.emails))
       /\ result.emails = NoneFound <=> result.emails_found = 0

\* the Email Extractor, given the address alone, returns exactly that address
AcceptedByExtractor(email, investor_name) ==
    extract_emails(email, investor_name) = {email}

\* C8: every address scrape_page_for_emails returns for an investor, from
\* mailto: links, high-value regions or the page text, has passed the filters of
\* extract_emails for that investor's type.
C8_AllFiltered ==
    pg_pc \in {"scraped", "resolved", "row"} =>
       \A k \in 1..Len(combined_emails) :
          AcceptedByExtractor(combined_emails[k], pg_investor)

(***************************************************************************)
(* Properties of scrape_page_for_emails (SpecFetch).                       *)
(***************************************************************************)
\* an attempt is under way
SpInAttempt == sp_pc \notin {"none", "for", "returned", "raised"}

\* the attempts begun so far
SpAttempts == Len(sp_log) + (IF SpInAttempt THEN 1 ELSE 0)

\* C11: scrape_page_for_emails makes at most max_retries attempts, an HTTP
\* status >= 400 and a raised exception each ending one attempt; an attempt
\* that succeeds is the last one and its emails are what the call returns;
\* when every attempt failed the call returns the empty list after
\* max_retries attempts; the call never raises.
C11_BoundedRetries ==
    /\ SpAttempts <= max_retries
    /\ sp_outcome # "raise"
    /\ \A k \in 1..Len(sp_log) :
          sp_log[k][1] = "ok" =>
             /\ k = Len(sp_log)
             /\ sp_outcome = "return"
             /\ sp_result = sp_log[k][2]
    /\ (sp_outcome = "return" /\ \A k \in 1..Len(sp_log) : sp_log[k][1] # "ok") =>
          /\ sp_result = <<>>
          /\ Len(sp_log) = max_retries

\* an HTTP error, then an exception, then a page with an address
C11_Witness ==
    /\ sp_outcome = "return"
    /\ Len(sp_log) = max_retries
    /\ sp_log[1] = <<"http">>
    /\ sp_log[2] = <<"raise">>
    /\ sp_log[3][1] = "ok"
    /\ sp_result # <<>>

\* C12: every browser launched for an attempt is closed before the next
\* attempt begins and before the function returns.
C12_NoBrowserLeftOpen ==
    /\ sp_pc \in {"for", "returned"} => sp_open = {}
    /\ se_pc \in {"attempt", "after", "returned"} => se_open = {}

(***************************************************************************)
(* Properties of search_alternative_engines (SpecSearch).                  *)
(***************************************************************************)
\* an attempt on the engine has begun
SeAttempted(engine) == \E k \in 1..Len(se_log) : se_log[k][1] = engine

\* C13: when the attempts of engine 1 have left urls empty (its page held no
\* acceptable link, or every attempt raised), engine 2 has been attempted
\* before the function returns; an attempt on engine 2 begins only when the
\* attempts of engine 1 are over.
C13_SecondEngineTried ==
    /\ (se_outcome = "return" /\ se_yield[1] = 0) => SeAttempted(2)
    /\ SeAttempted(2) => Len(se_yield) >= 1
    /\ \A i, j \in 1..Len(se_log) : i < j => se_log[i][1] <= se_log[j][1]

\* the three attempts on engine 1 raised, engine 2 found a link
C13_Witness ==
    /\ se_outcome = "return"
    /\ se_yield[1] = 0
    /\ 1 \notin se_ok
    /\ Len(se_log) > max_retries
    /\ se_log[max_retries] = <<1, max_retries - 1>>
    /\ se_result # <<>>

\* C14: engine 2 is queried when engine 1 left fewer than max_results URLs,
\* and is not queried when engine 1 alone left max_results URLs.
C14_FallbackChain ==
    Len(se_yield) >= 1 =>
        /\ (se_outcome = "return" /\ se_yield[1] < se_max) => SeAttempted(2)
        /\ se_yield[1] >= se_max => ~ SeAttempted(2)

\* C15: the returned list holds at most max_results URLs.
C15_AtMostMaxResults ==
    se_outcome = "return" => Len(se_result) <= se_max

\* the place of a URL in the order of discovery
Discovered(url) == CHOOSE k \in 1..Len(se_order) : se_order[k] = url

\* C16: in the returned list every prioritized URL precedes every other
\* URL, and the URLs of one tier are in the order of their discovery.
C16_PriorityOrder ==
    se_outcome = "return" =>
        \A i, j \in 1..Len(se_result) :
            i < j =>
                /\ ~ (Prioritized[se_result[j]] /\ ~ Prioritized[se_result[i]])
                /\ Prioritized[se_result[i]] = Prioritized[se_result[j]] =>
                      Discovered(se_result[i]) < Discovered(se_result[j])

\* C17: when no attempt on any engine succeeds, the function raises no
\* exception and returns the empty list.
C17_AllFailReturnsEmpty ==
    se_ok = {} =>
        /\ se_outcome # "raise"
        /\ se_outcome = "return" => se_result = <<>>

(***************************************************************************)
(* Properties of find_emails_for_investor (SpecFind).                      *)
(***************************************************************************)
\* C18: a scrape that returns at least 2 emails from a URL holding
\* 'linkedin.com' or the investor's collapsed name is the last scrape of its
\* query; the queries after it are still executed.
C18_EarlyExit ==
    /\ \A j \in 1..Len(fe_log) :
          EarlyExit(fe_log[j][2], fe_log[j][1], fe_investor) =>
             /\ j = Len(fe_log)
             /\ fe_pc # "url"
    /\ fe_outcome = "return" => fe_queries = queries(fe_investor)

\* the first query was left by the early exit, all four queries ran, and the
\* last one was left by the early exit with a URL not scraped
C18_Witness ==
    /\ fe_outcome = "return"
    /\ fe_exits = {1, 4}
    /\ fe_queries = queries(fe_investor)
    /\ Len(fe_log) < Len(fe_urls)

\* C19: an exception of query k does not leave find_emails_for_investor; the
\* queries after k are executed in the order of the list; the emails
\* collected before the exception are in the returned list; the returned
\* list holds no address twice.
C19_QueryErrorIsolated ==
    /\ fe_outcome # "raise"
    /\ Len(fe_queries) <= Len(queries(fe_investor))
    /\ \A j \in 1..Len(fe_queries) : fe_queries[j] = queries(fe_investor)[j]
    /\ fe_outcome = "return" =>
          /\ fe_queries = queries(fe_investor)
          /\ \A j \in 1..Len(fe_raised) : fe_raised[j][2] \subseteq SeqToSet(fe_result)
          /\ Cardinality(SeqToSet(fe_result)) = Len(fe_result)

\* the second query raised when one address had been collected; a later
\* query found a second one
C19_Witness ==
    /\ fe_outcome = "return"
    /\ fe_raised = << <<2, {Email1}>> >>
    /\ Len(fe_result) = 2

(***************************************************************************)
(* Properties of extract_emails (SpecExtract).                             *)
(***************************************************************************)
\* C20: extract_emails returns no address that holds an entry of
\* exclude_patterns, and returns no address twice.
C20_NoExcludedNoDuplicate ==
    ex_pc = "returned" =>
        /\ \A k \in 1..Len(ex_result) :
              \A exclude \in exclude_patterns : ~ Contains(ex_result[k], exclude)
        /\ \A i, j \in 1..Len(ex_result) : ex_result[i] = ex_result[j] => i = j

\* the text held an address of the exclusion list and one address twice (in
\* two spellings); the other one is returned once
C20_Witness ==
    /\ ex_pc = "returned"
    /\ \E k \in 1..Len(ex_emails) :
          \E exclude \in exclude_patterns : Contains(Lower(ex_emails[k]), exclude)
    /\ Len(ex_filtered) = 2
    /\ Len(ex_result) = 1

\* the domains the claim names
ConsumerDomains ==
    { <<"g","m","a","i","l",".","c","o","m">>,
      <<"y","a","h","o","o",".","c","o","m">>,
      <<"h","o","t","m","a","i","l",".","c","o","m">>,
      <<"o","u","t","l","o","o","k",".","c","o","m">>,
      <<"a","o","l",".","c","o","m">>, <<"l","i","v","e",".","c","o","m">>,
      <<"m","s","n",".","c","o","m">>,
      <<"i","c","l","o","u","d",".","c","o","m">> }

\* the name is given and classifies as a company
IsCompany(investor_name) ==
    investor_name # NoName /\ classify_investor_type(investor_name) = "company"

\* C21: for a company name extract_emails returns no address at a consumer mail
\* domain; for a person's name or no name, every address of the text at such a
\* domain that passes the other filters is returned.
C21_ConsumerDomains ==
    /\ \A d \in ConsumerDomains :
          /\ ~ PassesFilters(<<"b","o","@">> \o d, NamePool[2])
          /\ PassesFilters(<<"b","o","@">> \o d, NamePool[1])
          /\ PassesFilters(<<"b","o","@">> \o d, NoName)
    /\ ex_pc = "returned" =>
          IF IsCompany(ex_investor)
          THEN \A k \in 1..Len(ex_result) :
                  Split(ex_result[k], "@")[2] \notin ConsumerDomains
          ELSE \A k \in 1..Len(ex_emails) :
                  LET email == Strip(Lower(ex_emails[k]))
                  IN  (/\ Split(email, "@")[2] \in ConsumerDomains
                       /\ PassesFilters(email, NoName))
                         => email \in SeqToSet(ex_result)

\* a company's text held an address at gmail.com beside another one, and only
\* the other one is returned
C21_Witness ==
    /\ ex_pc = "returned"
    /\ IsCompany(ex_investor)
    /\ \E k \in 1..Len(ex_emails) :
          Split(Lower(ex_emails[k]), "@")[2] \in ConsumerDomains
    /\ Len(ex_result) = 1

(***************************************************************************)
(* Properties of parse_investor_list (SpecParse).                          *)
(***************************************************************************)
\* the first place at or after p where name stands in t (0: nowhere)
FirstAt(t, name, p) ==
    LET at == {q \in p..(Len(t) - Len(name) + 1) :
                  SubSeq(t, q, q + Len(name) - 1) = name}
    IN  IF at = {} THEN 0 ELSE CHOOSE q \in at : \A r \in at : q <= r

RECURSIVE InOrder(_, _, _)
\* the names stand in t one behind the other, from position p on
InOrder(t, list, p) ==
    \/ list = <<>>
    \/ /\ FirstAt(t, Head(list), p) > 0
       /\ InOrder(t, Tail(list), FirstAt(t, Head(list), p) + Len(Head(list)))

\* the fragment of the list that is the first one to equal name, case ignored
FirstLike(fragments, name) ==
    LET like == {k \in 1..Len(fragments) : Lower(fragments[k]) = Lower(name)}
    IN  IF like = {} THEN 0 ELSE CHOOSE k \in like : \A j \in like : k <= j

\* C22: every returned name is trimmed and longer than 2 characters, no two are
\* equal when case is ignored, the names are in the order of their first
\* occurrence in the input, and the empty input yields the empty sequence.
C22_ParsedNames ==
    pa_pc = "returned" =>
       LET fragments == CleanLines(pa_text)
           first == [i \in 1..Len(unique_investors) |->
                        FirstLike(fragments, unique_investors[i])]
       IN  /\ \A i \in 1..Len(unique_investors) :
                 /\ Strip(unique_investors[i]) = unique_investors[i]
                 /\ Len(unique_investors[i]) > 2
                 /\ first[i] > 0
                 /\ fragments[first[i]] = unique_investors[i]
           /\ \A i, j \in 1..Len(unique_investors) :
                 /\ i # j => Lower(unique_investors[i]) # Lower(unique_investors[j])
                 /\ i < j => first[i] < first[j]
           /\ \A k \in 1..Len(fragments) : FirstLike(unique_investors, fragments[k]) > 0
           /\ InOrder(raw_text, unique_investors, 1)
           /\ raw_text = <<>> => unique_investors = <<>>

\* the text held a name twice, in two spellings, and the first spelling is
\* returned
C22_Witness ==
    /\ pa_pc = "returned"
    /\ Len(CleanLines(pa_text)) = 2
    /\ CleanLines(pa_text)[1] # CleanLines(pa_text)[2]
    /\ unique_investors = <<CleanLines(pa_text)[1]>>

\* C23: parse_investor_list applied to the names it returned, joined by
\* newlines, returns the same names.
C23_Idempotent ==
    pa_pc = "returned" =>
       parse_investor_list(Join(unique_investors, <<"\n">>)) = unique_investors

(***************************************************************************)
(* Further properties of find_emails_for_investor (SpecFind).              *)
(***************************************************************************)
\* C27: the queries are begun in template order, four at most; the pages
\* scraped for a query are the first entries of the harvested list, in list
\* order, five at most (hence 20 pages at most for an investor); and an address
\* once in all_emails stays there and is returned.
C27_BoundedScrapes ==
    /\ [](/\ Len(fe_queries) <= 4
          /\ fe_queries = SubSeq(queries(fe_investor), 1, Len(fe_queries))
          /\ Len(fe_log) <= 5
          /\ Len(fe_log) <= Len(fe_urls)
          /\ \A j \in 1..Len(fe_log) : fe_log[j][1] = fe_urls[j]
          /\ fe_pc = "returned" => SeqToSet(fe_result) = fe_all)
    /\ [][fe_all \subseteq fe_all']_vars

\* in the third query the harvested list had 6 URLs: five were scraped, the
\* sixth was not, and the address of an earlier query is still held
C27_Witness ==
    /\ fe_pc = "query"
    /\ fe_k = 4
    /\ Len(fe_urls) = 6
    /\ Len(fe_log) = 5
    /\ \A j \in 1..5 : fe_log[j][2] = <<>>
    /\ fe_all # {}

(***************************************************************************)
(* Termination (SpecTerm).                                                 *)
(***************************************************************************)
\* the batch worker has ended and has reported the batch
WorkerEnded ==
    /\ pc[1] = "done"
    /\ ~ task_status.running
    /\ \/ task_status.current_investor = Completed
       \/ StartsWith(task_status.current_investor, ErrorPrefix)

\* C28: the batch worker terminates: process_all_investors ends and the worker
\* sets running to False with current_investor 'Completed' or 'Error: ..'; and
\* each of the calls a resolution is made of returns or raises.
C28_WorkerTerminates ==
    <>(/\ pc[1] = "idle" \/ WorkerEnded
       /\ sp_pc \in {"none", "returned"}
       /\ se_pc \in {"none", "returned", "raised"}
       /\ fe_pc \in {"none", "returned"})

\* a batch of 11 names has ended as completed
C28_Witness ==
    /\ WorkerEnded
    /\ task_status.total = 11
    /\ task_status.progress = 11
    /\ task_status.current_investor = Completed

====
